---- MODULE Spec2Model ----
(***************************************************************************)
(* Model of the portfolio core (Asset, Position, Portfolio) of             *)
(* src/Asset.cpp and src/Portfolio.cpp, of the console front end of        *)
(* src/main.cpp and of the HTTP front end of src/mainUI.cpp.               *)
(*                                                                         *)
(* Numbers: a C++ double is modelled as an integer number of units with    *)
(* at most MantissaBits significant bits; every sum, difference and        *)
(* product is rounded to the nearest such number, ties to the even         *)
(* mantissa, as IEEE-754 rounds a double's 53 bits.  mu and sigma are      *)
(* counted in units of 1e-12 (so the tolerance eps of addPosition is 1),   *)
(* prices and quantities in units of their own.  Quotients, weights and    *)
(* the risk figures are doubles with a binary exponent, [m, e] for         *)
(* m * 2^e, rounded                                                        *)
(* the same way.  An entry of a correlation matrix is [h, t] for           *)
(* h/2 + t * 0.5e-10.  Infinities and NaN are outside the model.          *)
(* Names: a std::string is a sequence of character codes (1 = 'a',         *)
(* 2 = 'b'); std::map orders its keys with std::less<std::string>, i.e.    *)
(* LexLess below.                                                          *)
(***************************************************************************)
EXTENDS Integers, Sequences, FiniteSets, TLC

\* positions_ : Portfolio::positions_ of the portfolio p the calls act on
\* pre        : positions_ as it was when the last call started
\* call       : the last call made on p and its arguments
\* err        : the exception that call raised (NoErr if it returned)
\* out        : the portfolio operator+ returned (empty when there is none)
\* ret        : what another call returned (empty when it returned nothing)
\* reads      : the index pairs <<i, j>> at which the call read corr[i][j]
\* mem        : the Asset objects alive, by the place each one is stored at:
\*              the caller's variable a, or the asset member of the Position
\*              a portfolio (owner) holds under a name
\* pf         : the portfolios lhs, rhs and merged of the caller, each entry
\*              holding the place of its asset member and its quantity
\* preMem,
\* prePf      : mem and pf as they were when the last call started
\* session    : the console program: "running" in its menu loop, "bye" after
\*              choice 0, "fatal" after main's catch block returned 1
\* g_portfolio, g_cache, g_mutex :
\*              the globals of the HTTP front end: the shared portfolio, the
\*              last correlation matrix (g_has_last_corr, g_last_corr,
\*              g_last_corr_labels) and the owner of the lock (0: free)
\* thr        : the request each server thread is handling and where it is
VARIABLES positions_, pre, call, err, out, ret, reads, mem, pf, preMem, prePf,
          session, g_portfolio, g_cache, g_mutex, thr

\* the variables of the single portfolio p, and those of the objects
coreVars == <<positions_, pre, out, reads>>

objVars == <<mem, pf, preMem, prePf>>

\* the variables of the HTTP front end
uiVars == <<g_portfolio, g_cache, g_mutex, thr>>

\* what a call on p leaves alone
otherVars == <<mem, pf, preMem, prePf, session, g_portfolio, g_cache, g_mutex, thr>>

vars == <<positions_, pre, call, err, out, ret, reads, mem, pf, preMem, prePf,
          session, g_portfolio, g_cache, g_mutex, thr>>

\* ------------------------------------------------------------------ bounds
\* largest quantity a position may reach, and largest quantity of one call
MaxQty == 2
\* significant bits of the modelled double
MantissaBits == 2

\* tolerance of the mu/sigma comparison of addPosition, in units of 1e-12
eps == 1

\* ---------------------------------------------------------- input universes
\* "a", "ab" / "a", "aa", "ab", "b"
Names == {<<1>>, <<1, 2>>}
WideNames == {<<1>>, <<1, 1>>, <<1, 2>>, <<2>>}
Qtys == -1..MaxQty

\* class Asset: the four private fields
MkAsset(n, p, m, s) == [name_ |-> n, price_ |-> p, mu_ |-> m, sigma_ |-> s]

\* <<price, mu, sigma>> of the assets offered under each name: a reference
\* asset and a free one, two whose mu lies within the tolerance of the
\* reference (and beyond it of each other), one whose sigma lies within the
\* tolerance and one beyond it
Params ==
  {<<2, 0, 0>>, <<0, 0, 0>>, <<1, 0 - eps, 0>>, <<1, eps, 0>>,
   <<1, 0, eps>>, <<1, 0, 2 * eps>>}

Assets == {MkAsset(n, x[1], x[2], x[3]) : n \in Names, x \in Params}

WideAssets == {MkAsset(n, 1, 0, 0) : n \in WideNames}

\* the risk figures are taken over "a", "ab", "b"; under each name a priced
\* asset of small sigma and another one: of a large sigma, or of price 0
RiskNames == {<<1>>, <<1, 2>>, <<2>>}

BigSigma == (2 ^ 28) * eps

RiskAssets ==
  {MkAsset(<<1>>, 1, eps, 2 * eps), MkAsset(<<1>>, 1, 0, BigSigma),
   MkAsset(<<1, 2>>, 1, 0 - eps, eps), MkAsset(<<1, 2>>, 0, 0, eps),
   MkAsset(<<2>>, 2, 2 * eps, 2 * eps), MkAsset(<<2>>, 1, 0, BigSigma)}

\* ------------------------------------------------------------------ errors
NoErr == [kind |-> "none", what |-> ""]
InvalidArgument(msg) == [kind |-> "invalid_argument", what |-> msg]
OutOfRange(msg) == [kind |-> "out_of_range", what |-> msg]

\* ----------------------------------------------------------------- helpers
Fabs(x) == IF x < 0 THEN 0 - x ELSE x

\* the unit in the last place of a double of magnitude x >= 0: the least power
\* of two u, from u on, with x < 2^MantissaBits * u
RECURSIVE Ulp(_, _)
Ulp(x, u) == IF x < (2 ^ MantissaBits) * u THEN u ELSE Ulp(x, 2 * u)

\* the double nearest to the exact value x >= 0, ties to the even mantissa
RndAbs(x) ==
  LET u == Ulp(x, 1)
      lo == (x \div u) * u
      rem == x - lo
  IN IF 2 * rem < u THEN lo
     ELSE IF 2 * rem > u THEN lo + u
     ELSE IF (x \div u) % 2 = 0 THEN lo ELSE lo + u

\* rounding of an exact result to a double
Rnd(x) == IF x < 0 THEN 0 - RndAbs(0 - x) ELSE RndAbs(x)

\* double addition, subtraction and multiplication
FAdd(x, y) == Rnd(x + y)

FSub(x, y) == Rnd(x - y)

FMul(x, y) == Rnd(x * y)

\* a double with a fraction: [m, e] is m * 2^e, with m odd, or 0 with e = 0
RECURSIVE FltNorm(_, _)
FltNorm(m, e) ==
  IF m = 0 THEN [m |-> 0, e |-> 0]
  ELSE IF m % 2 = 0 THEN FltNorm(m \div 2, e + 1)
  ELSE [m |-> m, e |-> e]

\* the double of a whole number of units, and 0.0
Flt(x) == FltNorm(x, 0)

FltZero == Flt(0)

\* the double nearest to the exact value m * 2^e
FltRnd(m, e) == FltNorm(Rnd(m), e)

\* double multiplication
FltMul(x, y) == FltRnd(x.m * y.m, x.e + y.e)

\* double addition: the operands are aligned on the smaller exponent; an
\* operand more than 2 * MantissaBits + 3 binary places below the other one
\* is below half a unit in its last place and leaves it as it is
FltAdd(x, y) ==
  IF x.m = 0 THEN y
  ELSE IF y.m = 0 THEN x
  ELSE IF x.e - y.e > 2 * MantissaBits + 3 THEN x
  ELSE IF y.e - x.e > 2 * MantissaBits + 3 THEN y
  ELSE LET lo == IF x.e < y.e THEN x.e ELSE y.e
       IN FltRnd(x.m * 2 ^ (x.e - lo) + y.m * 2 ^ (y.e - lo), lo)

\* double subtraction
FltSub(x, y) == FltAdd(x, [m |-> 0 - y.m, e |-> y.e])

\* x < y on doubles
FltLess(x, y) == FltSub(x, y).m < 0

\* double division by y # 0: the quotient of the mantissas is taken to
\* 2 * MantissaBits + 2 binary places, with one more place that tells whether
\* anything is left below them, and rounded
FltDiv(x, y) ==
  LET k == 2 * MantissaBits + 2
      num == Fabs(x.m) * 2 ^ k
      den == Fabs(y.m)
      q == num \div den
      sticky == IF num % den = 0 THEN 0 ELSE 1
      sign == IF (x.m < 0) = (y.m < 0) THEN 1 ELSE 0 - 1
  IN FltRnd(sign * (2 * q + sticky), x.e - y.e - k - 1)

\* std::sqrt of a double x >= 0, correctly rounded: the integer square root of
\* the mantissa taken to an even exponent, one more place telling whether the
\* root is inexact
FltSqrt(x) ==
  IF x.m = 0 THEN FltZero
  ELSE
    LET k == IF (x.e - (2 * MantissaBits + 2)) % 2 = 0
             THEN 2 * MantissaBits + 2 ELSE 2 * MantissaBits + 3
        M == x.m * 2 ^ k
        r == CHOOSE s \in 0..(2 ^ (2 * MantissaBits + 2)) : s * s <= M /\ M < (s + 1) * (s + 1)
        sticky == IF r * r = M THEN 0 ELSE 1
    IN FltRnd(2 * r + sticky, ((x.e - k) \div 2) - 1)

\* std::less<std::string>: lexicographic comparison of character sequences
RECURSIVE LexLessFrom(_, _, _)
LexLessFrom(s, t, i) ==
  IF i > Len(t) THEN FALSE
  ELSE IF i > Len(s) THEN TRUE
  ELSE IF s[i] < t[i] THEN TRUE
  ELSE IF t[i] < s[i] THEN FALSE
  ELSE LexLessFrom(s, t, i + 1)

LexLess(s, t) == LexLessFrom(s, t, 1)

\* ---------------------------------------------------------------- std::map
\* positions_ is a std::map<std::string, Position>: a sequence of
\* [first, second] pairs held in ascending key order.

\* map::find: index of the entry with key k, 0 for end()
MapFind(m, k) ==
  IF \E i \in 1..Len(m) : m[i].first = k
  THEN CHOOSE i \in 1..Len(m) : m[i].first = k
  ELSE 0

\* an emplace that appends the entry (insertion order, as a vector would)
MapEmplace_appends(m, k, v) == m \o <<[first |-> k, second |-> v]>>

\* map::emplace of an absent key: the entry goes before the first larger key
MapEmplace(m, k, v) ==
  LET lower == {i \in 1..Len(m) : LexLess(m[i].first, k)}
      n == Cardinality(lower)
  IN SubSeq(m, 1, n) \o <<[first |-> k, second |-> v]>> \o SubSeq(m, n + 1, Len(m))

\* map::erase(iterator)
MapErase(m, i) == SubSeq(m, 1, i - 1) \o SubSeq(m, i + 1, Len(m))

\* ------------------------------------------------------------------- Asset
\* a constructor that refuses a price of 0 as well
AssetCtor_positivePrice(name, price, expected_return, volatility) ==
  IF name = <<>>
  THEN [err |-> InvalidArgument("Asset: name must be non-empty."), val |-> <<>>]
  ELSE IF price <= 0
  THEN [err |-> InvalidArgument("Asset: price must be >= 0."), val |-> <<>>]
  ELSE IF volatility < 0
  THEN [err |-> InvalidArgument("Asset: volatility (sigma) must be >= 0."), val |-> <<>>]
  ELSE [err |-> NoErr, val |-> MkAsset(name, price, expected_return, volatility)]

\* Asset::Asset: the exception raised, else the object constructed
AssetCtor(name, price, expected_return, volatility) ==
  IF name = <<>>
  THEN [err |-> InvalidArgument("Asset: name must be non-empty."), val |-> <<>>]
  ELSE IF price < 0
  THEN [err |-> InvalidArgument("Asset: price must be >= 0."), val |-> <<>>]
  ELSE IF volatility < 0
  THEN [err |-> InvalidArgument("Asset: volatility (sigma) must be >= 0."), val |-> <<>>]
  ELSE [err |-> NoErr, val |-> MkAsset(name, price, expected_return, volatility)]

\* a setPrice that assigns before it checks
setPrice_assignsFirst(a, price) ==
  IF price < 0
  THEN [err |-> InvalidArgument("Asset::setPrice: price must be >= 0."),
        val |-> [a EXCEPT !.price_ = price]]
  ELSE [err |-> NoErr, val |-> [a EXCEPT !.price_ = price]]

\* Asset::setPrice: the exception raised, and the object after the call
setPrice(a, price) ==
  IF price < 0
  THEN [err |-> InvalidArgument("Asset::setPrice: price must be >= 0."), val |-> a]
  ELSE [err |-> NoErr, val |-> [a EXCEPT !.price_ = price]]

\* ---------------------------------------------------------------- Position
\* Position::Position
PositionCtor(a, q) ==
  IF q <= 0
  THEN [err |-> InvalidArgument("Position: quantity must be > 0."), val |-> <<>>]
  ELSE [err |-> NoErr, val |-> [asset |-> a, quantity |-> q]]

\* Position::value
value(pos) == FMul(pos.asset.price_, pos.quantity)

\* --------------------------------------------------------------- Portfolio
\* Portfolio::size
size(m) == Len(m)

\* addPosition without its first check (Portfolio.cpp:16)
addPosition_noQuantityCheck(m, a, quantity) ==
  LET it == MapFind(m, a.name_) IN
  IF it = 0
  THEN LET p == PositionCtor(a, quantity) IN
       IF p.err # NoErr
       THEN [err |-> p.err, positions_ |-> m]
       ELSE [err |-> NoErr, positions_ |-> MapEmplace(m, a.name_, p.val)]
  ELSE
    LET existing == m[it].second.asset IN
    IF Fabs(FSub(existing.mu_, a.mu_)) > eps \/ Fabs(FSub(existing.sigma_, a.sigma_)) > eps
    THEN [err |-> InvalidArgument("addPosition: asset parameters mismatch for same name (mu/sigma)."),
          positions_ |-> m]
    ELSE [err |-> NoErr,
          positions_ |-> [m EXCEPT ![it].second.quantity = FAdd(@, quantity)]]

\* addPosition summing the quantity before it compares mu and sigma
addPosition_sumsFirst(m, a, quantity) ==
  IF quantity <= 0
  THEN [err |-> InvalidArgument("addPosition: quantity must be > 0."), positions_ |-> m]
  ELSE
    LET it == MapFind(m, a.name_) IN
    IF it = 0
    THEN [err |-> NoErr,
          positions_ |-> MapEmplace(m, a.name_, [asset |-> a, quantity |-> quantity])]
    ELSE
      LET existing == m[it].second.asset
          m1 == [m EXCEPT ![it].second.quantity = FAdd(@, quantity)] IN
      IF Fabs(FSub(existing.mu_, a.mu_)) > eps \/ Fabs(FSub(existing.sigma_, a.sigma_)) > eps
      THEN [err |-> InvalidArgument("addPosition: asset parameters mismatch for same name (mu/sigma)."),
            positions_ |-> m1]
      ELSE [err |-> NoErr, positions_ |-> m1]

\* addPosition storing the incoming asset record on a match (latest price wins)
addPosition_latestPrice(m, a, quantity) ==
  IF quantity <= 0
  THEN [err |-> InvalidArgument("addPosition: quantity must be > 0."), positions_ |-> m]
  ELSE
    LET it == MapFind(m, a.name_) IN
    IF it = 0
    THEN [err |-> NoErr,
          positions_ |-> MapEmplace(m, a.name_, [asset |-> a, quantity |-> quantity])]
    ELSE
      LET existing == m[it].second.asset IN
      IF Fabs(FSub(existing.mu_, a.mu_)) > eps \/ Fabs(FSub(existing.sigma_, a.sigma_)) > eps
      THEN [err |-> InvalidArgument("addPosition: asset parameters mismatch for same name (mu/sigma)."),
            positions_ |-> m]
      ELSE [err |-> NoErr,
            positions_ |-> [m EXCEPT ![it].second =
                              [asset |-> a, quantity |-> FAdd(@.quantity, quantity)]]]

\* addPosition comparing mu only
addPosition_muOnly(m, a, quantity) ==
  IF quantity <= 0
  THEN [err |-> InvalidArgument("addPosition: quantity must be > 0."), positions_ |-> m]
  ELSE
    LET it == MapFind(m, a.name_) IN
    IF it = 0
    THEN [err |-> NoErr,
          positions_ |-> MapEmplace(m, a.name_, [asset |-> a, quantity |-> quantity])]
    ELSE
      LET existing == m[it].second.asset IN
      IF Fabs(FSub(existing.mu_, a.mu_)) > eps
      THEN [err |-> InvalidArgument("addPosition: asset parameters mismatch for same name (mu/sigma)."),
            positions_ |-> m]
      ELSE [err |-> NoErr,
            positions_ |-> [m EXCEPT ![it].second.quantity = FAdd(@, quantity)]]

\* addPosition assigning the quantity on a match instead of adding it
addPosition_assigns(m, a, quantity) ==
  IF quantity <= 0
  THEN [err |-> InvalidArgument("addPosition: quantity must be > 0."), positions_ |-> m]
  ELSE
    LET it == MapFind(m, a.name_) IN
    IF it = 0
    THEN [err |-> NoErr,
          positions_ |-> MapEmplace(m, a.name_, [asset |-> a, quantity |-> quantity])]
    ELSE
      LET existing == m[it].second.asset IN
      IF Fabs(FSub(existing.mu_, a.mu_)) > eps \/ Fabs(FSub(existing.sigma_, a.sigma_)) > eps
      THEN [err |-> InvalidArgument("addPosition: asset parameters mismatch for same name (mu/sigma)."),
            positions_ |-> m]
      ELSE [err |-> NoErr,
            positions_ |-> [m EXCEPT ![it].second.quantity = quantity]]

\* Portfolio::addPosition: the exception raised (NoErr if none) and the map
\* after the call
addPosition(m, a, quantity) ==
  IF quantity <= 0
  THEN [err |-> InvalidArgument("addPosition: quantity must be > 0."), positions_ |-> m]
  ELSE
    LET it == MapFind(m, a.name_) IN
    IF it = 0
    THEN LET p == PositionCtor(a, quantity) IN
         IF p.err # NoErr
         THEN [err |-> p.err, positions_ |-> m]
         ELSE [err |-> NoErr, positions_ |-> MapEmplace(m, a.name_, p.val)]
    ELSE
      LET existing == m[it].second.asset IN
      IF Fabs(FSub(existing.mu_, a.mu_)) > eps \/ Fabs(FSub(existing.sigma_, a.sigma_)) > eps
      THEN [err |-> InvalidArgument("addPosition: asset parameters mismatch for same name (mu/sigma)."),
            positions_ |-> m]
      ELSE [err |-> NoErr,
            positions_ |-> [m EXCEPT ![it].second.quantity = FAdd(@, quantity)]]

\* removePosition without the check against the stored quantity
removePosition_noExceedCheck(m, assetName, quantity) ==
  IF quantity <= 0
  THEN [err |-> InvalidArgument("removePosition: quantity must be > 0."), positions_ |-> m]
  ELSE
    LET it == MapFind(m, assetName) IN
    IF it = 0
    THEN [err |-> OutOfRange("removePosition: asset not found: "), positions_ |-> m]
    ELSE
      LET m1 == [m EXCEPT ![it].second.quantity = FSub(@, quantity)] IN
      [err |-> NoErr,
       positions_ |-> IF m1[it].second.quantity <= 0 THEN MapErase(m1, it) ELSE m1]

\* removePosition erasing the entry only below zero
removePosition_keepsZero(m, assetName, quantity) ==
  IF quantity <= 0
  THEN [err |-> InvalidArgument("removePosition: quantity must be > 0."), positions_ |-> m]
  ELSE
    LET it == MapFind(m, assetName) IN
    IF it = 0
    THEN [err |-> OutOfRange("removePosition: asset not found: "), positions_ |-> m]
    ELSE IF quantity > m[it].second.quantity
    THEN [err |-> InvalidArgument("removePosition: quantity exceeds current position."),
          positions_ |-> m]
    ELSE
      LET m1 == [m EXCEPT ![it].second.quantity = FSub(@, quantity)] IN
      [err |-> NoErr,
       positions_ |-> IF m1[it].second.quantity < 0 THEN MapErase(m1, it) ELSE m1]

\* Portfolio::removePosition: the exception raised and the map after the call
removePosition(m, assetName, quantity) ==
  IF quantity <= 0
  THEN [err |-> InvalidArgument("removePosition: quantity must be > 0."), positions_ |-> m]
  ELSE
    LET it == MapFind(m, assetName) IN
    IF it = 0
    THEN [err |-> OutOfRange("removePosition: asset not found: "), positions_ |-> m]
    ELSE IF quantity > m[it].second.quantity
    THEN [err |-> InvalidArgument("removePosition: quantity exceeds current position."),
          positions_ |-> m]
    ELSE
      LET m1 == [m EXCEPT ![it].second.quantity = FSub(@, quantity)] IN
      [err |-> NoErr,
       positions_ |-> IF m1[it].second.quantity <= 0 THEN MapErase(m1, it) ELSE m1]

\* an accessor that goes through std::map::operator[], which inserts a
\* value-initialised entry under an absent key
operatorIndex_inserts(m, assetName) ==
  LET it == MapFind(m, assetName)
      fresh == [asset |-> MkAsset(assetName, 0, 0, 0), quantity |-> 0]
  IN IF it = 0
     THEN [err |-> NoErr, val |-> fresh, positions_ |-> MapEmplace(m, assetName, fresh)]
     ELSE [err |-> NoErr, val |-> m[it].second, positions_ |-> m]

\* Portfolio::operator[]: the exception raised, else the Position the
\* returned reference designates, and the map after the call
operatorIndex(m, assetName) ==
  LET it == MapFind(m, assetName) IN
  IF it = 0
  THEN [err |-> OutOfRange("operator[]: asset not found: "), val |-> <<>>, positions_ |-> m]
  ELSE [err |-> NoErr, val |-> m[it].second, positions_ |-> m]

\* Portfolio::operator[] const
operatorIndexConst(m, assetName) ==
  LET it == MapFind(m, assetName) IN
  IF it = 0
  THEN [err |-> OutOfRange("operator[] const: asset not found: "), val |-> <<>>,
        positions_ |-> m]
  ELSE [err |-> NoErr, val |-> m[it].second, positions_ |-> m]

\* operator+: the loop over rhs.positions_ from its i-th entry on; an
\* exception of addPosition leaves the loop and no portfolio is returned
RECURSIVE operatorPlusLoop(_, _, _)
operatorPlusLoop(o, rhs, i) ==
  IF i > Len(rhs)
  THEN [err |-> NoErr, out |-> o]
  ELSE
    LET r == addPosition(o, rhs[i].second.asset, rhs[i].second.quantity) IN
    IF r.err # NoErr
    THEN [err |-> r.err, out |-> <<>>]
    ELSE operatorPlusLoop(r.positions_, rhs, i + 1)

\* operator+ starting from a copy of rhs and adding the positions of lhs
operatorPlus_swapped(lhs, rhs) == operatorPlusLoop(rhs, lhs, 1)

\* operator+(lhs, rhs): out starts as a copy of lhs
operatorPlus(lhs, rhs) == operatorPlusLoop(lhs, rhs, 1)

\* a running total that leaves out the first entry
RECURSIVE totalValueUpTo_skipsFirst(_, _)
totalValueUpTo_skipsFirst(m, i) ==
  IF i <= 1 THEN 0
  ELSE FAdd(totalValueUpTo_skipsFirst(m, i - 1), value(m[i].second))

\* Portfolio::totalValue: the running total over the first i entries
RECURSIVE totalValueUpTo(_, _)
totalValueUpTo(m, i) ==
  IF i = 0 THEN 0 ELSE FAdd(totalValueUpTo(m, i - 1), value(m[i].second))

totalValue(m) == totalValueUpTo(m, Len(m))

\* Portfolio::assetOrder: the keys in the map's iteration order
assetOrder(m) == [i \in 1..Len(m) |-> m[i].first]

\* a weight taken on the quantity instead of the value
weight_byQuantity(pos, total) == FltDiv(Flt(pos.quantity), Flt(total))

\* w = pos.value() / total
weight(pos, total) == FltDiv(Flt(value(pos)), Flt(total))

\* Portfolio::expectedReturn: the running er over the first i entries
RECURSIVE expectedReturnUpTo(_, _, _)
expectedReturnUpTo(m, total, i) ==
  IF i = 0 THEN FltZero
  ELSE FltAdd(expectedReturnUpTo(m, total, i - 1),
              FltMul(weight(m[i].second, total), Flt(m[i].second.asset.mu_)))

\* Portfolio::expectedReturn
expectedReturn(m) ==
  LET total == totalValue(m) IN
  IF total <= 0 THEN FltZero ELSE expectedReturnUpTo(m, total, Len(m))

\* ------------------------------------------------------ correlation matrix
\* An entry of corr is [h, t], the double h/2 + t * 0.5e-10, with t small:
\* the order of two entries is decided by h and, for the same h, by t.
Corr(h, t) == [h |-> h, t |-> t]

CorrOne == Corr(2, 0)

CorrZero == Corr(0, 0)

CorrLess(x, y) == x.h < y.h \/ (x.h = y.h /\ x.t < y.t)

CorrSub(x, y) == Corr(x.h - y.h, x.t - y.t)

CorrNeg(x) == Corr(0 - x.h, 0 - x.t)

CorrFabs(x) == IF CorrLess(x, CorrZero) THEN CorrNeg(x) ELSE x

\* the entry as an operand of a product: h/2 when h # 0, t * 0.5e-10 being
\* far below half a unit in its last place; t * 0.5e-10 itself when h = 0
\* (0.5e-10 = 1759.2 * 2^-45)
CorrFlt(x) == IF x.h # 0 THEN FltNorm(x.h, 0 - 1) ELSE FltRnd(1759 * x.t, 0 - 45)

\* 1e-10
epsSym == Corr(0, 2)

epsDiag == Corr(0, 2)

\* corr[i][j] (indices from 1). std::vector::operator[] does not check its
\* index: the value read outside the matrix is arbitrary
CorrAt(corr, i, j) ==
  IF i \in 1..Len(corr) /\ j \in 1..Len(corr[i]) THEN corr[i][j] ELSE CorrZero

\* the loops with the diagonal tested from above only (corr[i][i] - 1.0 > epsDiag)
RECURSIVE validateLoop_diagonalAbove(_, _, _, _, _)
validateLoop_diagonalAbove(corr, n, i, j, rd) ==
  IF i > n THEN [err |-> NoErr, reads |-> rd]
  ELSE IF j > n THEN validateLoop_diagonalAbove(corr, n, i + 1, i + 1, rd)
  ELSE IF j = i
  THEN LET rd1 == rd \cup {<<i, i>>} IN
       IF CorrLess(epsDiag, CorrSub(CorrAt(corr, i, i), CorrOne))
       THEN [err |-> InvalidArgument("varianceApprox: correlation matrix diagonal must be 1."),
             reads |-> rd1]
       ELSE validateLoop_diagonalAbove(corr, n, i, j + 1, rd1)
  ELSE LET a == CorrAt(corr, i, j)
           b == CorrAt(corr, j, i)
           rd1 == rd \cup {<<i, j>>, <<j, i>>}
       IN IF CorrLess(a, CorrNeg(CorrOne)) \/ CorrLess(CorrOne, a)
             \/ CorrLess(b, CorrNeg(CorrOne)) \/ CorrLess(CorrOne, b)
          THEN [err |-> InvalidArgument("varianceApprox: correlation must be in [-1, 1]."),
                reads |-> rd1]
          ELSE IF CorrLess(epsSym, CorrFabs(CorrSub(a, b)))
          THEN [err |-> InvalidArgument("varianceApprox: correlation matrix must be symmetric."),
                reads |-> rd1]
          ELSE validateLoop_diagonalAbove(corr, n, i, j + 1, rd1)

\* the loops with the symmetry tested one way only (a - b > epsSym)
RECURSIVE validateLoop_symmetryOneWay(_, _, _, _, _)
validateLoop_symmetryOneWay(corr, n, i, j, rd) ==
  IF i > n THEN [err |-> NoErr, reads |-> rd]
  ELSE IF j > n THEN validateLoop_symmetryOneWay(corr, n, i + 1, i + 1, rd)
  ELSE IF j = i
  THEN LET rd1 == rd \cup {<<i, i>>} IN
       IF CorrLess(epsDiag, CorrFabs(CorrSub(CorrAt(corr, i, i), CorrOne)))
       THEN [err |-> InvalidArgument("varianceApprox: correlation matrix diagonal must be 1."),
             reads |-> rd1]
       ELSE validateLoop_symmetryOneWay(corr, n, i, j + 1, rd1)
  ELSE LET a == CorrAt(corr, i, j)
           b == CorrAt(corr, j, i)
           rd1 == rd \cup {<<i, j>>, <<j, i>>}
       IN IF CorrLess(a, CorrNeg(CorrOne)) \/ CorrLess(CorrOne, a)
             \/ CorrLess(b, CorrNeg(CorrOne)) \/ CorrLess(CorrOne, b)
          THEN [err |-> InvalidArgument("varianceApprox: correlation must be in [-1, 1]."),
                reads |-> rd1]
          ELSE IF CorrLess(epsSym, CorrSub(a, b))
          THEN [err |-> InvalidArgument("varianceApprox: correlation matrix must be symmetric."),
                reads |-> rd1]
          ELSE validateLoop_symmetryOneWay(corr, n, i, j + 1, rd1)

\* validateCorrelationMatrix: the two nested loops from (i, j) on, rd being the
\* index pairs read so far
RECURSIVE validateLoop(_, _, _, _, _)
validateLoop(corr, n, i, j, rd) ==
  IF i > n THEN [err |-> NoErr, reads |-> rd]
  ELSE IF j > n THEN validateLoop(corr, n, i + 1, i + 1, rd)
  ELSE IF j = i
  THEN LET rd1 == rd \cup {<<i, i>>} IN
       IF CorrLess(epsDiag, CorrFabs(CorrSub(CorrAt(corr, i, i), CorrOne)))
       THEN [err |-> InvalidArgument("varianceApprox: correlation matrix diagonal must be 1."),
             reads |-> rd1]
       ELSE validateLoop(corr, n, i, j + 1, rd1)
  ELSE LET a == CorrAt(corr, i, j)
           b == CorrAt(corr, j, i)
           rd1 == rd \cup {<<i, j>>, <<j, i>>}
       IN IF CorrLess(a, CorrNeg(CorrOne)) \/ CorrLess(CorrOne, a)
             \/ CorrLess(b, CorrNeg(CorrOne)) \/ CorrLess(CorrOne, b)
          THEN [err |-> InvalidArgument("varianceApprox: correlation must be in [-1, 1]."),
                reads |-> rd1]
          ELSE IF CorrLess(epsSym, CorrFabs(CorrSub(a, b)))
          THEN [err |-> InvalidArgument("varianceApprox: correlation matrix must be symmetric."),
                reads |-> rd1]
          ELSE validateLoop(corr, n, i, j + 1, rd1)

\* a validation that takes the width of the matrix from its first row
validateCorrelationMatrix_firstRowOnly(corr, n) ==
  IF Len(corr) # n
  THEN [err |-> InvalidArgument("varianceApprox: correlation matrix wrong number of rows."),
        reads |-> {}, corr |-> corr]
  ELSE IF Len(corr) >= 1 /\ Len(corr[1]) # n
  THEN [err |-> InvalidArgument("varianceApprox: correlation matrix wrong number of columns."),
        reads |-> {}, corr |-> corr]
  ELSE LET v == validateLoop(corr, n, 1, 1, {}) IN
       [err |-> v.err, reads |-> v.reads, corr |-> corr]

\* a validation that brings every entry into [-1, 1] before it tests them
validateCorrelationMatrix_clamps(corr, n) ==
  IF Len(corr) # n
  THEN [err |-> InvalidArgument("varianceApprox: correlation matrix wrong number of rows."),
        reads |-> {}, corr |-> corr]
  ELSE IF \E r \in 1..Len(corr) : Len(corr[r]) # n
  THEN [err |-> InvalidArgument("varianceApprox: correlation matrix wrong number of columns."),
        reads |-> {}, corr |-> corr]
  ELSE LET clamp(x) == IF CorrLess(x, CorrNeg(CorrOne)) THEN CorrNeg(CorrOne)
                       ELSE IF CorrLess(CorrOne, x) THEN CorrOne ELSE x
           c2 == [i \in 1..n |-> [j \in 1..n |-> clamp(corr[i][j])]]
           v == validateLoop(c2, n, 1, 1, {})
       IN [err |-> v.err, reads |-> v.reads, corr |-> c2]

\* Portfolio::validateCorrelationMatrix: the exception raised (NoErr if none),
\* the index pairs read, and the matrix as the call leaves it (it is taken by
\* const reference and never written)
validateCorrelationMatrix(corr, n) ==
  IF Len(corr) # n
  THEN [err |-> InvalidArgument("varianceApprox: correlation matrix wrong number of rows."),
        reads |-> {}, corr |-> corr]
  ELSE IF \E r \in 1..Len(corr) : Len(corr[r]) # n
  THEN [err |-> InvalidArgument("varianceApprox: correlation matrix wrong number of columns."),
        reads |-> {}, corr |-> corr]
  ELSE LET v == validateLoop(corr, n, 1, 1, {}) IN
       [err |-> v.err, reads |-> v.reads, corr |-> corr]

\* ------------------------------------------------------------- risk engine
\* the vector w of varianceApprox and varianceContributionsApprox
weights(m, total) == [i \in 1..Len(m) |-> weight(m[i].second, total)]

\* a double loop that takes the terms on and above the diagonal only
RECURSIVE varUpTo_upperTriangle(_, _, _, _)
varUpTo_upperTriangle(m, corr, w, k) ==
  IF k = 0 THEN FltZero
  ELSE LET n == Len(m)
           i == ((k - 1) \div n) + 1
           j == ((k - 1) % n) + 1
           si == Flt(m[i].second.asset.sigma_)
           sj == Flt(m[j].second.asset.sigma_)
       IN IF j < i THEN varUpTo_upperTriangle(m, corr, w, k - 1)
          ELSE FltAdd(varUpTo_upperTriangle(m, corr, w, k - 1),
                      FltMul(FltMul(FltMul(FltMul(w[i], w[j]), CorrFlt(CorrAt(corr, i, j))), si), sj))

\* varianceApprox: var after the first k rounds of the double loop, round k
\* being i = (k - 1) div n + 1, j = (k - 1) mod n + 1
RECURSIVE varUpTo(_, _, _, _)
varUpTo(m, corr, w, k) ==
  IF k = 0 THEN FltZero
  ELSE LET n == Len(m)
           i == ((k - 1) \div n) + 1
           j == ((k - 1) % n) + 1
           si == Flt(m[i].second.asset.sigma_)
           sj == Flt(m[j].second.asset.sigma_)
       IN FltAdd(varUpTo(m, corr, w, k - 1),
                 FltMul(FltMul(FltMul(FltMul(w[i], w[j]), CorrFlt(CorrAt(corr, i, j))), si), sj))

\* the index pairs the double loops of the risk engine read
AllPairs(n) == (1..n) \X (1..n)

\* Portfolio::varianceApprox: the exception raised, the value returned and the
\* index pairs read
varianceApprox(m, corr) ==
  LET n == Len(m) IN
  IF n = 0 THEN [err |-> NoErr, val |-> FltZero, reads |-> {}, positions_ |-> m, corr |-> corr]
  ELSE
    LET v == validateCorrelationMatrix(corr, n) IN
    IF v.err # NoErr
    THEN [err |-> v.err, val |-> <<>>, reads |-> v.reads, positions_ |-> m, corr |-> v.corr]
    ELSE
      LET total == totalValue(m) IN
      IF total <= 0
      THEN [err |-> NoErr, val |-> FltZero, reads |-> v.reads, positions_ |-> m,
            corr |-> v.corr]
      ELSE [err |-> NoErr,
            val |-> varUpTo(m, v.corr, weights(m, total), n * n),
            reads |-> v.reads \cup AllPairs(n),
            positions_ |-> m, corr |-> v.corr]

\* the magnitude of v instead of std::max(0.0, v)
FltMax0_fabs(v) == [m |-> Fabs(v.m), e |-> v.e]

\* std::max(0.0, v)
FltMax0(v) == IF FltLess(FltZero, v) THEN v ELSE FltZero

\* Portfolio::volatilityApprox
volatilityApprox(m, corr) ==
  LET v == varianceApprox(m, corr) IN
  IF v.err # NoErr THEN v
  ELSE [err |-> NoErr, val |-> FltSqrt(FltMax0(v.val)), reads |-> v.reads,
        positions_ |-> v.positions_, corr |-> v.corr]

\* a row sum that leaves out the weight w[j]
RECURSIVE covRowDotW_noWeight(_, _, _, _, _)
covRowDotW_noWeight(m, corr, w, i, j) ==
  IF j = 0 THEN FltZero
  ELSE LET si == Flt(m[i].second.asset.sigma_)
           sj == Flt(m[j].second.asset.sigma_)
       IN FltAdd(covRowDotW_noWeight(m, corr, w, i, j - 1),
                 FltMul(FltMul(CorrFlt(CorrAt(corr, i, j)), si), sj))

\* varianceContributionsApprox: covRowDotW of row i after its first j columns
RECURSIVE covRowDotW(_, _, _, _, _)
covRowDotW(m, corr, w, i, j) ==
  IF j = 0 THEN FltZero
  ELSE LET si == Flt(m[i].second.asset.sigma_)
           sj == Flt(m[j].second.asset.sigma_)
       IN FltAdd(covRowDotW(m, corr, w, i, j - 1),
                 FltMul(FltMul(FltMul(CorrFlt(CorrAt(corr, i, j)), si), sj), w[j]))

\* Portfolio::varianceContributionsApprox
varianceContributionsApprox(m, corr) ==
  LET n == Len(m)
      zeros == [i \in 1..n |-> FltZero]
  IN
  IF n = 0 THEN [err |-> NoErr, val |-> zeros, reads |-> {}, positions_ |-> m, corr |-> corr]
  ELSE
    LET v == validateCorrelationMatrix(corr, n) IN
    IF v.err # NoErr
    THEN [err |-> v.err, val |-> <<>>, reads |-> v.reads, positions_ |-> m, corr |-> v.corr]
    ELSE
      LET total == totalValue(m) IN
      IF total <= 0
      THEN [err |-> NoErr, val |-> zeros, reads |-> v.reads, positions_ |-> m,
            corr |-> v.corr]
      ELSE LET w == weights(m, total) IN
           [err |-> NoErr,
            val |-> [i \in 1..n |-> FltMul(w[i], covRowDotW(m, v.corr, w, i, n))],
            reads |-> v.reads \cup AllPairs(n),
            positions_ |-> m, corr |-> v.corr]

\* ------------------------------------------------------------------ actions
\* no Asset object and no portfolio besides p
NoPortfolios == [lhs |-> <<>>, rhs |-> <<>>, merged |-> <<>>]

\* the threads of the server, and one that waits for a request
Threads == {1, 2}

Idle == [pc |-> "idle"]

\* no matrix computed yet: g_has_last_corr = false
NoCache == [has |-> FALSE, corr |-> <<>>, labels |-> <<>>]

ObjInit ==
  /\ mem = <<>>
  /\ pf = NoPortfolios
  /\ preMem = <<>>
  /\ prePf = NoPortfolios
  /\ session = "running"
  /\ g_portfolio = <<>>
  /\ g_cache = NoCache
  /\ g_mutex = 0
  /\ thr = [t \in Threads |-> Idle]

Init ==
  /\ positions_ = <<>>
  /\ pre = <<>>
  /\ call = [op |-> "init"]
  /\ err = NoErr
  /\ out = <<>>
  /\ ret = <<>>
  /\ reads = {}
  /\ ObjInit

\* p.addPosition(a, q) for an asset of A and a quantity of Q; a call that
\* would take a position beyond MaxQty is left out
AddPosition(A, Q) ==
  \E a \in A, q \in Q :
    LET r == addPosition(positions_, a, q) IN
    /\ \A i \in 1..Len(r.positions_) : r.positions_[i].second.quantity <= MaxQty
    /\ positions_' = r.positions_
    /\ pre' = positions_
    /\ err' = r.err
    /\ call' = [op |-> "addPosition", a |-> a, quantity |-> q]
    /\ out' = <<>>
    /\ ret' = <<>>
    /\ reads' = {}
    /\ UNCHANGED otherVars

\* p.removePosition(name, q) for a name of N and a quantity of Q
RemovePosition(N, Q) ==
  \E n \in N, q \in Q :
    LET r == removePosition(positions_, n, q) IN
    /\ positions_' = r.positions_
    /\ pre' = positions_
    /\ err' = r.err
    /\ call' = [op |-> "removePosition", assetName |-> n, quantity |-> q]
    /\ out' = <<>>
    /\ ret' = <<>>
    /\ reads' = {}
    /\ UNCHANGED otherVars

\* p[name] for a name of N
IndexedAccess(N) ==
  \E n \in N :
    LET r == operatorIndex(positions_, n) IN
    /\ positions_' = r.positions_
    /\ pre' = positions_
    /\ err' = r.err
    /\ call' = [op |-> "operator[]", assetName |-> n]
    /\ out' = <<>>
    /\ ret' = r.val
    /\ reads' = {}
    /\ UNCHANGED otherVars

\* cp[name] for a name of N, cp being a const reference to p
IndexedAccessConst(N) ==
  \E n \in N :
    LET r == operatorIndexConst(positions_, n) IN
    /\ positions_' = r.positions_
    /\ pre' = positions_
    /\ err' = r.err
    /\ call' = [op |-> "operator[] const", assetName |-> n]
    /\ out' = <<>>
    /\ ret' = r.val
    /\ reads' = {}
    /\ UNCHANGED otherVars

\* the portfolios that at most k successful addPosition calls build from the
\* empty one, each call adding quantity 1 of an asset of A
RECURSIVE Built(_, _)
Built(A, k) ==
  IF k = 0 THEN {<<>>}
  ELSE LET B == Built(A, k - 1) IN
       B \cup {addPosition(m, a, 1).positions_ : m \in B, a \in A}

\* the right-hand sides of operator+: built with one call or less per name
RhsPortfolios == Built(Assets, Cardinality(Names))

\* merged = p + p2 for a right-hand side p2 of R
Merge(R) ==
  \E rhs \in R :
    LET r == operatorPlus(positions_, rhs) IN
    /\ positions_' = positions_
    /\ pre' = positions_
    /\ err' = r.err
    /\ call' = [op |-> "operator+", rhs |-> rhs]
    /\ out' = r.out
    /\ ret' = <<>>
    /\ reads' = {}
    /\ UNCHANGED otherVars

Next ==
  \/ AddPosition(Assets, Qtys)
  \/ RemovePosition(Names, Qtys)
  \/ IndexedAccess(Names)
  \/ IndexedAccessConst(Names)
  \/ Merge(RhsPortfolios)

Spec == Init /\ [][Next]_vars

\* the same portfolio over four names and one asset per name
NextOrder ==
  \/ AddPosition(WideAssets, Qtys)
  \/ RemovePosition(WideNames, Qtys)

SpecOrder == Init /\ [][NextOrder]_vars

\* ------------------------------------------- matrices handed to the engine
\* the symmetric unit-diagonal matrices of 2 and 3 assets
Sym2(r) == <<<<CorrOne, r>>, <<r, CorrOne>>>>

Sym3(r12, r13, r23) ==
  <<<<CorrOne, r12, r13>>, <<r12, CorrOne, r23>>, <<r13, r23, CorrOne>>>>

\* entries at, next to and beyond the limits the validation draws:
\* 1 + 0.5e-10, 1 + 1e-10, 1 + 1.5e-10, 1 - 1e-10, 1 - 1.5e-10, 1.5, -1.5,
\* -1 - 0.5e-10, -1 + 0.5e-10, 1e-10, 1.5e-10, 0.5, 0, -1, 1
Entries ==
  {Corr(2, 1), Corr(2, 2), Corr(2, 3), Corr(2, 0 - 2), Corr(2, 0 - 3), Corr(3, 0),
   Corr(0 - 3, 0), Corr(0 - 2, 0 - 1), Corr(0 - 2, 1), Corr(0, 2), Corr(0, 3),
   Corr(1, 0), CorrZero, Corr(0 - 2, 0), CorrOne}

FewEntries ==
  {Corr(2, 1), Corr(2, 3), Corr(3, 0), Corr(0, 2), Corr(0, 3), Corr(1, 0), Corr(0 - 2, 0 - 1)}

Base2 == {Sym2(r) : r \in {Corr(0 - 2, 0), Corr(0 - 1, 0), CorrZero, Corr(1, 0), CorrOne}}

Base3 ==
  {Sym3(CorrZero, CorrZero, CorrZero),
   Sym3(Corr(0 - 2, 0), Corr(0 - 2, 0), Corr(0 - 2, 0)),
   Sym3(Corr(1, 0), CorrZero, Corr(0 - 1, 0))}

\* one entry of a matrix replaced
Replaced(B, i, j, x) == [B EXCEPT ![i][j] = x]

\* matrices of a wrong or ragged shape
Misshapen ==
  {<<>>, <<<<>>>>, <<<<CorrOne, CorrZero>>>>,
   <<<<CorrOne>>, <<CorrZero, CorrOne>>>>,
   <<<<CorrOne, CorrZero>>, <<CorrZero>>>>,
   <<<<CorrOne, CorrZero>>, <<CorrZero, CorrOne>>, <<CorrZero, CorrZero>>>>,
   <<<<CorrOne, CorrZero, CorrZero>>, <<CorrZero, CorrOne, CorrZero>>>>,
   <<<<CorrOne, CorrZero, CorrZero>>, <<CorrZero, CorrOne, CorrZero>>, <<CorrZero, CorrZero>>>>,
   <<<<CorrOne, CorrZero, CorrZero>>, <<CorrZero, CorrOne, CorrZero, CorrZero>>,
     <<CorrZero, CorrZero, CorrOne>>>>}

Matrices ==
  {<<<<x>>>> : x \in Entries}
    \cup Base2 \cup Base3 \cup Misshapen
    \cup {Replaced(Sym2(Corr(1, 0)), i, j, x) : i \in 1..2, j \in 1..2, x \in Entries}
    \cup {Replaced(Sym3(CorrZero, CorrZero, CorrZero), i, j, x) :
            i \in 1..3, j \in 1..3, x \in FewEntries}
    \cup {Replaced(Replaced(Sym2(Corr(1, 0)), 2, 2, x), 1, 2, y) :
            x \in {Corr(2, 3), CorrZero}, y \in {Corr(3, 0), CorrZero}}

\* the portfolios addPosition builds over the three names
RiskPortfolios ==
  {m \in Built(RiskAssets, Cardinality(RiskNames) * MaxQty) :
     \A i \in 1..Len(m) : m[i].second.quantity <= MaxQty}

\* The risk engine changes nothing: its calls are made on a portfolio p that
\* addPosition has built, with a matrix corr the caller holds.
InitRisk ==
  /\ positions_ \in RiskPortfolios
  /\ pre = positions_
  /\ call \in {[op |-> "init", corr |-> c] : c \in Matrices}
  /\ err = NoErr
  /\ out = <<>>
  /\ ret = <<>>
  /\ reads = {}
  /\ ObjInit

\* p.expectedReturn()
ExpectedReturn ==
  /\ positions_' = positions_
  /\ pre' = positions_
  /\ err' = NoErr
  /\ call' = [op |-> "expectedReturn", corr |-> call.corr]
  /\ out' = <<>>
  /\ ret' = expectedReturn(positions_)
  /\ reads' = {}
  /\ UNCHANGED otherVars

\* p.varianceApprox(corr)
VarianceApprox ==
  LET r == varianceApprox(positions_, call.corr) IN
  /\ positions_' = r.positions_
  /\ pre' = positions_
  /\ err' = r.err
  /\ call' = [op |-> "varianceApprox", corr |-> r.corr]
  /\ out' = <<>>
  /\ ret' = r.val
  /\ reads' = r.reads
  /\ UNCHANGED otherVars

\* p.volatilityApprox(corr)
VolatilityApprox ==
  LET r == volatilityApprox(positions_, call.corr) IN
  /\ positions_' = r.positions_
  /\ pre' = positions_
  /\ err' = r.err
  /\ call' = [op |-> "volatilityApprox", corr |-> r.corr]
  /\ out' = <<>>
  /\ ret' = r.val
  /\ reads' = r.reads
  /\ UNCHANGED otherVars

\* p.varianceContributionsApprox(corr)
VarianceContributionsApprox ==
  LET r == varianceContributionsApprox(positions_, call.corr) IN
  /\ positions_' = r.positions_
  /\ pre' = positions_
  /\ err' = r.err
  /\ call' = [op |-> "varianceContributionsApprox", corr |-> r.corr]
  /\ out' = <<>>
  /\ ret' = r.val
  /\ reads' = r.reads
  /\ UNCHANGED otherVars

NextRisk ==
  \/ ExpectedReturn
  \/ VarianceApprox
  \/ VolatilityApprox
  \/ VarianceContributionsApprox

SpecRisk == InitRisk /\ [][NextRisk]_vars

\* ------------------------------------------------- Asset objects and copies
\* the arguments handed to the Asset constructor and to setPrice
CtorNames == {<<>>, <<1>>, <<1, 2>>}

Prices == {-1, 0, 1, 2}

Mus == {0 - eps, 0, eps}

Sigmas == {0 - eps, 0, eps}

\* the place of the caller's variable a, and of the asset member of the
\* Position that the portfolio x holds under the name n
CallerA == [owner |-> "a", name |-> <<>>]

Member(x, n) == [owner |-> x, name |-> n]

\* the memory with the object v stored at a place
MemPut(mm, place, v) ==
  [x \in (DOMAIN mm) \cup {place} |-> IF x = place THEN v ELSE mm[x]]

\* Asset a(name, price, mu, sigma): the caller's variable a holds the object
\* when the constructor returns, and is left as it was when it throws
Construct(Ns, Ps, Ms, Ss) ==
  \E n \in Ns, p \in Ps, m \in Ms, s \in Ss :
    LET r == AssetCtor(n, p, m, s) IN
    /\ mem' = IF r.err = NoErr THEN MemPut(mem, CallerA, r.val) ELSE mem
    /\ preMem' = mem
    /\ call' = [op |-> "Asset", name |-> n, price |-> p,
                expected_return |-> m, volatility |-> s]
    /\ err' = r.err
    /\ ret' = r.val
    /\ prePf' = pf
    /\ UNCHANGED <<pf, coreVars, session, uiVars>>

\* x.setPrice(price) for an Asset object x that is alive
SetPrice(Ps) ==
  \E place \in DOMAIN mem, p \in Ps :
    LET r == setPrice(mem[place], p) IN
    /\ mem' = [mem EXCEPT ![place] = r.val]
    /\ preMem' = mem
    /\ call' = [op |-> "setPrice", place |-> place, price |-> p]
    /\ err' = r.err
    /\ ret' = <<>>
    /\ prePf' = pf
    /\ UNCHANGED <<pf, coreVars, session, uiVars>>

\* Position(a, q): a temporary Position made of the caller's asset
MakePosition(Q) ==
  \E q \in Q :
    LET r == PositionCtor(mem[CallerA], q) IN
    /\ CallerA \in DOMAIN mem
    /\ preMem' = mem
    /\ call' = [op |-> "Position", quantity |-> q]
    /\ err' = r.err
    /\ ret' = r.val
    /\ prePf' = pf
    /\ UNCHANGED <<mem, pf, coreVars, session, uiVars>>

\* ---- the same calls on objects: who holds which Asset
\* the portfolio a caller sees: every entry with the Asset stored at its place
Deref(mm, P) ==
  [i \in 1..Len(P) |->
     [first |-> P[i].first,
      second |-> [asset |-> mm[P[i].second.asset], quantity |-> P[i].second.quantity]]]

\* the places of the asset members of a portfolio's Positions
Places(P) == {P[i].second.asset : i \in 1..Len(P)}

\* a member that refers to the source object instead of copying it
CopyAsset_byReference(mm, src, dest) == [mem |-> mm, place |-> src]

\* the copy constructor of Asset, as Position::Position runs it for its
\* member asset(a) and std::map for the Positions it copies: the member at
\* dest becomes a new object with the four fields of the source
CopyAsset(mm, src, dest) == [mem |-> MemPut(mm, dest, mm[src]), place |-> dest]

\* the end of a portfolio's lifetime: its Positions and their assets go
Release(mm, P) == [x \in (DOMAIN mm) \ Places(P) |-> mm[x]]

\* x.addPosition(a, quantity) for the Asset a stored at src: what the call
\* does to the entries P of the portfolio x, a new entry holding its own
\* copy of a
addPositionAt(mm, P, x, src, quantity) ==
  LET r == addPosition(Deref(mm, P), mm[src], quantity) IN
  IF r.err # NoErr
  THEN [err |-> r.err, mem |-> mm, positions_ |-> P]
  ELSE
    LET V == r.positions_
        c == IF MapFind(P, mm[src].name_) = 0
             THEN CopyAsset(mm, src, Member(x, mm[src].name_))
             ELSE [mem |-> mm, place |-> src]
        placeOf(k) == IF MapFind(P, k) # 0 THEN P[MapFind(P, k)].second.asset ELSE c.place
        entryAt(y) == CHOOSE i \in 1..Len(V) : placeOf(V[i].first) = y
    IN [err |-> NoErr,
        mem |-> [y \in DOMAIN c.mem |->
                   IF \E i \in 1..Len(V) : placeOf(V[i].first) = y
                   THEN V[entryAt(y)].second.asset
                   ELSE c.mem[y]],
        positions_ |->
          [i \in 1..Len(V) |->
             [first |-> V[i].first,
              second |-> [asset |-> placeOf(V[i].first),
                          quantity |-> V[i].second.quantity]]]]

\* Portfolio's copy constructor over the first i entries: every Position is
\* copied, and its asset member with it
RECURSIVE CopyPortfolioUpTo(_, _, _, _)
CopyPortfolioUpTo(mm, P, x, i) ==
  IF i = 0 THEN [mem |-> mm, positions_ |-> <<>>]
  ELSE LET r == CopyPortfolioUpTo(mm, P, x, i - 1)
           c == CopyAsset(r.mem, P[i].second.asset, Member(x, P[i].first))
       IN [mem |-> c.mem,
           positions_ |->
             Append(r.positions_,
                    [first |-> P[i].first,
                     second |-> [asset |-> c.place, quantity |-> P[i].second.quantity]])]

CopyPortfolio(mm, P, x) == CopyPortfolioUpTo(mm, P, x, Len(P))

\* operator+ on objects, from the i-th entry of rhs on: an exception of
\* addPosition ends the lifetime of out
RECURSIVE operatorPlusLoopAt(_, _, _, _)
operatorPlusLoopAt(mm, o, R, i) ==
  IF i > Len(R)
  THEN [err |-> NoErr, mem |-> mm, out |-> o]
  ELSE
    LET r == addPositionAt(mm, o, "merged", R[i].second.asset, R[i].second.quantity) IN
    IF r.err # NoErr
    THEN [err |-> r.err, mem |-> Release(mm, o), out |-> <<>>]
    ELSE operatorPlusLoopAt(r.mem, r.positions_, R, i + 1)

\* operator+(lhs, rhs) on objects: out is a copy of lhs
operatorPlusAt(mm, L, R) ==
  LET c == CopyPortfolio(mm, L, "merged") IN operatorPlusLoopAt(c.mem, c.positions_, R, 1)

\* the assets the caller constructs here: one name, two prices, and two
\* expected returns further apart than the tolerance of addPosition
ShareNames == {<<1>>}

SharePrices == {0, 1}

ShareMus == {0, 2 * eps}

\* x.addPosition(a, 1) for the caller's asset a and a portfolio x of X
AddTo(X) ==
  \E x \in X :
    LET r == addPositionAt(mem, pf[x], x, CallerA, 1) IN
    /\ CallerA \in DOMAIN mem
    /\ \A i \in 1..Len(r.positions_) : r.positions_[i].second.quantity <= MaxQty
    /\ mem' = r.mem
    /\ pf' = [pf EXCEPT ![x] = r.positions_]
    /\ preMem' = mem
    /\ prePf' = pf
    /\ call' = [op |-> "addPosition", on |-> x]
    /\ err' = r.err
    /\ ret' = <<>>
    /\ UNCHANGED <<coreVars, session, uiVars>>

\* Portfolio merged = lhs + rhs; the merged of an earlier block is gone
MergeObjects ==
  LET r == operatorPlusAt(Release(mem, pf.merged), pf.lhs, pf.rhs) IN
  /\ mem' = r.mem
  /\ pf' = [pf EXCEPT !.merged = r.out]
  /\ preMem' = mem
  /\ prePf' = pf
  /\ call' = [op |-> "operator+"]
  /\ err' = r.err
  /\ ret' = <<>>
  /\ UNCHANGED <<coreVars, session, uiVars>>

\* rhs = lhs: the copy assignment of Portfolio
CopyAssign ==
  LET r == CopyPortfolio(Release(mem, pf.rhs), pf.lhs, "rhs") IN
  /\ mem' = r.mem
  /\ pf' = [pf EXCEPT !.rhs = r.positions_]
  /\ preMem' = mem
  /\ prePf' = pf
  /\ call' = [op |-> "copy"]
  /\ err' = NoErr
  /\ ret' = <<>>
  /\ UNCHANGED <<coreVars, session, uiVars>>

\* a.setPrice(price) on the caller's asset ("a"), or x[name].asset
\* .setPrice(price) through the mutable accessor of a portfolio x
SetPriceVia(X, N, Ps) ==
  \E x \in X \cup {"a"}, n \in N, p \in Ps :
    LET place == IF x = "a" THEN CallerA ELSE pf[x][MapFind(pf[x], n)].second.asset
        r == setPrice(mem[place], p)
    IN
    /\ IF x = "a" THEN CallerA \in DOMAIN mem /\ n = CHOOSE k \in N : TRUE
                  ELSE MapFind(pf[x], n) # 0
    /\ mem' = [mem EXCEPT ![place] = r.val]
    /\ preMem' = mem
    /\ prePf' = pf
    /\ call' = [op |-> "setPrice", via |-> x, name |-> n, price |-> p]
    /\ err' = r.err
    /\ ret' = <<>>
    /\ UNCHANGED <<pf, coreVars, session, uiVars>>

Owners == {"lhs", "rhs", "merged"}

NextShare ==
  \/ Construct(ShareNames, SharePrices, ShareMus, {0})
  \/ AddTo({"lhs", "rhs"})
  \/ MergeObjects
  \/ CopyAssign
  \/ SetPriceVia(Owners, ShareNames, {-1, 0, 1})

SpecShare == Init /\ [][NextShare]_vars

InitAsset == Init

NextAsset ==
  \/ Construct(CtorNames, Prices, Mus, Sigmas)
  \/ SetPrice(Prices)
  \/ MakePosition(Qtys)

SpecAsset == InitAsset /\ [][NextAsset]_vars

\* --------------------------------------------------------- console front end
\* what the user types at the prompts of choice 1
ConsolePrices == {-1, 1}

\* main's try block encloses the menu loop: an exception of any choice
\* unwinds it, destroying p, and the catch block returns 1
AfterChoice(e, m) ==
  /\ session' = IF e = NoErr THEN "running" ELSE "fatal"
  /\ positions_' = IF e = NoErr THEN m ELSE <<>>

\* choice 1: Asset(name, price, mu, sigma), then p.addPosition
MenuAdd(Ns, Ps, Ms, Q) ==
  \E n \in Ns, p \in Ps, m \in Ms, q \in Q :
    LET c == AssetCtor(n, p, m, 0)
        r == IF c.err # NoErr
             THEN [err |-> c.err, positions_ |-> positions_]
             ELSE addPosition(positions_, c.val, q)
    IN
    /\ session = "running"
    /\ \A i \in 1..Len(r.positions_) : r.positions_[i].second.quantity <= MaxQty
    /\ AfterChoice(r.err, r.positions_)
    /\ pre' = positions_
    /\ err' = r.err
    /\ call' = [op |-> "choice 1", name |-> n, price |-> p, quantity |-> q]
    /\ out' = <<>>
    /\ ret' = <<>>
    /\ reads' = {}
    /\ UNCHANGED <<objVars, uiVars>>

\* choice 3: p.removePosition(name, qty)
MenuRemove(N, Q) ==
  \E n \in N, q \in Q :
    LET r == removePosition(positions_, n, q) IN
    /\ session = "running"
    /\ AfterChoice(r.err, r.positions_)
    /\ pre' = positions_
    /\ err' = r.err
    /\ call' = [op |-> "choice 3", assetName |-> n, quantity |-> q]
    /\ out' = <<>>
    /\ ret' = <<>>
    /\ reads' = {}
    /\ UNCHANGED <<objVars, uiVars>>

\* choice 5: "Portfolio empty." on an empty p, else a matrix of p.size()
\* rows and columns is read and p.volatilityApprox(corr) printed
MenuMetrics(Ms) ==
  \E corr \in Ms :
    LET r == IF size(positions_) = 0
             THEN [err |-> NoErr, val |-> <<>>, reads |-> {}]
             ELSE volatilityApprox(positions_, corr)
    IN
    /\ session = "running"
    /\ Len(corr) = size(positions_)
    /\ \A i \in 1..Len(corr) : Len(corr[i]) = size(positions_)
    /\ size(positions_) = 0 => corr = <<>>
    /\ AfterChoice(r.err, positions_)
    /\ pre' = positions_
    /\ err' = r.err
    /\ call' = [op |-> "choice 5", corr |-> corr]
    /\ out' = <<>>
    /\ ret' = r.val
    /\ reads' = r.reads
    /\ UNCHANGED <<objVars, uiVars>>

\* choice 6: Portfolio merged = p + p2
MenuMerge(R) ==
  \E rhs \in R :
    LET r == operatorPlus(positions_, rhs) IN
    /\ session = "running"
    /\ AfterChoice(r.err, positions_)
    /\ pre' = positions_
    /\ err' = r.err
    /\ call' = [op |-> "choice 6", rhs |-> rhs]
    /\ out' = r.out
    /\ ret' = <<>>
    /\ reads' = {}
    /\ UNCHANGED <<objVars, uiVars>>

\* choice 0: the loop is left, "Bye.", return 0
MenuQuit ==
  /\ session = "running"
  /\ session' = "bye"
  /\ positions_' = <<>>
  /\ pre' = positions_
  /\ err' = NoErr
  /\ call' = [op |-> "choice 0"]
  /\ out' = <<>>
  /\ ret' = <<>>
  /\ reads' = {}
  /\ UNCHANGED <<objVars, uiVars>>

NextConsole ==
  \/ MenuAdd(Names, ConsolePrices, ShareMus, Qtys)
  \/ MenuRemove(Names, Qtys)
  \/ MenuMetrics(Base2 \cup {<<>>, <<<<CorrOne>>>>, <<<<Corr(1, 0)>>>>})
  \/ MenuMerge(RhsPortfolios)
  \/ MenuQuit

SpecConsole == Init /\ [][NextConsole]_vars

\* ------------------------------------------------------------------ claims
\* the names a map holds, and the Position it holds under a name
Keys(m) == {m[i].first : i \in 1..Len(m)}

At(m, k) == m[CHOOSE i \in 1..Len(m) : m[i].first = k].second

\* every entry of the last call's portfolio other than the one named n is as
\* it was when the call started, and no other name came or went
OthersUnchanged(n) ==
  /\ Keys(positions_) \ {n} = Keys(pre) \ {n}
  /\ \A k \in Keys(pre) \ {n} : At(positions_, k) = At(pre, k)
  /\ Len(positions_) = Cardinality(Keys(positions_))

\* mu and sigma of two asset records agree within the tolerance
Agree(x, y) ==
  Fabs(FSub(x.mu_, y.mu_)) <= eps /\ Fabs(FSub(x.sigma_, y.sigma_)) <= eps

MismatchWhat == "addPosition: asset parameters mismatch for same name (mu/sigma)."

\* C1: in every reachable state every entry stored in the portfolio, and in a
\* portfolio operator+ returned, has quantity > 0.
C1_QuantityPositive ==
  /\ \A i \in 1..Len(positions_) : positions_[i].second.quantity > 0
  /\ \A i \in 1..Len(out) : out[i].second.quantity > 0

\* C1 witness: a removePosition took a position to zero and the entry is gone
C1_Witness ==
  /\ call.op = "removePosition"
  /\ err = NoErr
  /\ call.assetName \in Keys(pre)
  /\ At(pre, call.assetName).quantity = call.quantity
  /\ call.assetName \notin Keys(positions_)

\* C2: a rejected addPosition or removePosition leaves the portfolio exactly
\* as it was before the call.
C2_RejectedUnchanged ==
  (call.op \in {"addPosition", "removePosition"} /\ err # NoErr) => positions_ = pre

\* C2 witness: an addPosition on a held name was rejected for a mu/sigma mismatch
C2_Witness ==
  /\ call.op = "addPosition"
  /\ err = InvalidArgument(MismatchWhat)
  /\ call.quantity > 0
  /\ call.a.name_ \in Keys(pre)

\* C3: addPosition(a, q) with q > 0 creates the entry (a, q) when the name is
\* absent; when the name is present and mu/sigma agree it adds q to the stored
\* quantity and keeps the stored asset record and its price; every other
\* entry is unchanged.
C3_AddPosition ==
  (call.op = "addPosition" /\ call.quantity > 0) =>
    LET a == call.a
        q == call.quantity
        n == call.a.name_
    IN /\ n \notin Keys(pre) =>
            /\ err = NoErr
            /\ n \in Keys(positions_)
            /\ At(positions_, n) = [asset |-> a, quantity |-> q]
            /\ OthersUnchanged(n)
       /\ (n \in Keys(pre) /\ Agree(At(pre, n).asset, a)) =>
            /\ err = NoErr
            /\ n \in Keys(positions_)
            /\ At(positions_, n) =
                 [asset |-> At(pre, n).asset, quantity |-> FAdd(At(pre, n).quantity, q)]
            /\ OthersUnchanged(n)

\* C3 witness: an accepted addPosition on a held name came with another price
C3_Witness ==
  /\ call.op = "addPosition"
  /\ err = NoErr
  /\ call.a.name_ \in Keys(pre)
  /\ call.a.price_ # At(pre, call.a.name_).asset.price_
  /\ Len(pre) = 2

\* C4: on a portfolio holding the name, an addPosition whose mu or sigma
\* differs from the stored one by more than the tolerance fails with
\* InvalidArgument whatever the quantity and the price; within the tolerance
\* (and with a quantity > 0) it is accepted.
C4_MismatchRejected ==
  (call.op = "addPosition" /\ call.a.name_ \in Keys(pre)) =>
    LET stored == At(pre, call.a.name_).asset
        dmu == Fabs(FSub(stored.mu_, call.a.mu_))
        dsigma == Fabs(FSub(stored.sigma_, call.a.sigma_))
    IN /\ (dmu > eps \/ dsigma > eps) => err.kind = "invalid_argument"
       /\ (dmu <= eps /\ dsigma <= eps /\ call.quantity > 0) => err = NoErr

\* C4 witness: only sigma differs, at a quantity > 0 and another price, and the
\* call was rejected
C4_Witness ==
  /\ call.op = "addPosition"
  /\ call.a.name_ \in Keys(pre)
  /\ call.quantity > 0
  /\ At(pre, call.a.name_).asset.mu_ = call.a.mu_
  /\ Fabs(FSub(At(pre, call.a.name_).asset.sigma_, call.a.sigma_)) > eps
  /\ At(pre, call.a.name_).asset.price_ # call.a.price_
  /\ err.kind = "invalid_argument"

\* C5: removePosition fails with InvalidArgument when q <= 0, else with
\* NotFound when the name is absent, else with InvalidArgument when q exceeds
\* the stored quantity; addPosition fails with InvalidArgument when q <= 0.
C5_Rejections ==
  /\ call.op = "removePosition" =>
       /\ call.quantity <= 0 => err.kind = "invalid_argument"
       /\ (call.quantity > 0 /\ call.assetName \notin Keys(pre)) =>
            err.kind = "out_of_range"
       /\ (call.quantity > 0 /\ call.assetName \in Keys(pre)
             /\ call.quantity > At(pre, call.assetName).quantity) =>
            err.kind = "invalid_argument"
  /\ (call.op = "addPosition" /\ call.quantity <= 0) => err.kind = "invalid_argument"

\* C5 witness: a removePosition of more than the held quantity was rejected
C5_Witness ==
  /\ call.op = "removePosition"
  /\ call.assetName \in Keys(pre)
  /\ call.quantity > At(pre, call.assetName).quantity
  /\ err.kind = "invalid_argument"

\* C6: removePosition(name, q) with 0 < q <= Q, Q the stored quantity: q = Q
\* deletes the entry and size() decreases by exactly 1; q < Q leaves the entry
\* with quantity Q - q and size() unchanged; all other entries are unchanged.
C6_RemovePosition ==
  (call.op = "removePosition" /\ call.assetName \in Keys(pre)
     /\ 0 < call.quantity /\ call.quantity <= At(pre, call.assetName).quantity) =>
    LET n == call.assetName
        q == call.quantity
        old == At(pre, n)
    IN /\ err = NoErr
       /\ OthersUnchanged(n)
       /\ q = old.quantity =>
            /\ n \notin Keys(positions_)
            /\ size(positions_) = size(pre) - 1
       /\ q < old.quantity =>
            /\ n \in Keys(positions_)
            /\ At(positions_, n) = [asset |-> old.asset, quantity |-> FSub(old.quantity, q)]
            /\ size(positions_) = size(pre)

\* C6 witness: part of a position was removed while another name was held
C6_Witness ==
  /\ call.op = "removePosition"
  /\ err = NoErr
  /\ call.assetName \in Keys(positions_)
  /\ At(positions_, call.assetName).quantity < At(pre, call.assetName).quantity
  /\ size(positions_) = 2

\* the quantity a map holds under a name, 0 when it does not hold the name
QuantityOf(m, k) == IF k \in Keys(m) THEN At(m, k).quantity ELSE 0

\* the quantities the calls of C7 are tried with: doubles from 1 to MaxQty + 2
TwoCallQtys == {q \in 1..(MaxQty + 2) : Rnd(q) = q}

\* a may be added to m: m does not hold its name, or mu and sigma agree
Consistent(m, a) == a.name_ \in Keys(m) => Agree(At(m, a.name_).asset, a)

\* addPosition(a, q1) then addPosition(a, q2) on m, both calls return, and so
\* does addPosition(a, q1 + q2) with the sum the caller computes
BothReturn(m, a, q1, q2) ==
  LET first == addPosition(m, a, q1) IN
  /\ first.err = NoErr
  /\ addPosition(first.positions_, a, q2).err = NoErr
  /\ addPosition(m, a, FAdd(q1, q2)).err = NoErr

\* the portfolio after addPosition(a, q1) then addPosition(a, q2) on m
AddedTwice(m, a, q1, q2) ==
  addPosition(addPosition(m, a, q1).positions_, a, q2).positions_

\* q1 then q2, q2 then q1 and q1 + q2 at once leave the same stored quantity
\* for a and the same totalValue()
SameOutcome(m, a, q1, q2) ==
  LET m12 == AddedTwice(m, a, q1, q2)
      m21 == AddedTwice(m, a, q2, q1)
      once == addPosition(m, a, FAdd(q1, q2)).positions_
  IN /\ QuantityOf(m12, a.name_) = QuantityOf(once, a.name_)
     /\ QuantityOf(m12, a.name_) = QuantityOf(m21, a.name_)
     /\ totalValue(m12) = totalValue(once)
     /\ totalValue(m12) = totalValue(m21)

\* no sum of the stored quantity Q with q1 and q2 is rounded
ExactSums(Q, q1, q2) ==
  /\ Rnd(Q + q1) = Q + q1
  /\ Rnd(Q + q2) = Q + q2
  /\ Rnd(q1 + q2) = q1 + q2
  /\ Rnd(Q + q1 + q2) = Q + q1 + q2

\* the states C7 is evaluated in: the empty portfolio, and every other
\* portfolio right after an indexed access to one of its names (every
\* reachable portfolio is in such a state, and the access changes nothing)
AtRest ==
  \/ call.op = "init"
  \/ call.op = "operator[]" /\ err = NoErr

\* C7 as stated: from any portfolio and for any asset consistent with it,
\* addPosition(a, q1) then addPosition(a, q2) gives the same stored quantity
\* for a and the same totalValue() as addPosition(a, q1 + q2) alone, and as
\* q2 first and q1 second.
C7_AsStated ==
  \A a \in Assets, q1 \in TwoCallQtys, q2 \in TwoCallQtys :
    (AtRest /\ Consistent(positions_, a)) =>
      BothReturn(positions_, a, q1, q2) /\ SameOutcome(positions_, a, q1, q2)

\* C7 amended: for any asset consistent with the portfolio all these calls
\* are accepted; the stored quantity and totalValue() are the same for q1 then
\* q2, q2 then q1 and q1 + q2 at once when the portfolio does not hold the
\* asset yet, and when it holds it with a quantity whose sums with q1 and q2
\* are exact in double arithmetic.
C7_AddCommutes ==
  \A a \in Assets, q1 \in TwoCallQtys, q2 \in TwoCallQtys :
    (AtRest /\ Consistent(positions_, a)) =>
      /\ BothReturn(positions_, a, q1, q2)
      /\ (a.name_ \notin Keys(positions_)
            \/ ExactSums(QuantityOf(positions_, a.name_), q1, q2)) =>
           SameOutcome(positions_, a, q1, q2)

\* C7 witness: the second of two accepted addPosition calls of quantity 1 on
\* a priced asset has brought its position to quantity 2, next to another one
C7_Witness ==
  /\ call.op = "addPosition"
  /\ err = NoErr
  /\ call.quantity = 1
  /\ call.a.name_ \in Keys(pre)
  /\ At(pre, call.a.name_).quantity = 1
  /\ At(positions_, call.a.name_).quantity = 2
  /\ totalValue(positions_) > totalValue(pre)
  /\ size(positions_) = 2

\* addPosition applied to m with the positions of rhs, one by one from the
\* last down to the i-th: whether every call returned, and the portfolio built
RECURSIVE AddedOneByOne(_, _, _)
AddedOneByOne(m, rhs, i) ==
  IF i > Len(rhs) THEN [ok |-> TRUE, m |-> m]
  ELSE LET rest == AddedOneByOne(m, rhs, i + 1) IN
       IF ~rest.ok THEN rest
       ELSE LET r == addPosition(rest.m, rhs[i].second.asset, rhs[i].second.quantity) IN
            [ok |-> r.err = NoErr, m |-> r.positions_]

\* C8: operator+(A, B) succeeds exactly when addPosition of every position of
\* B, one by one, on a copy of A all succeed, and then returns exactly that
\* portfolio: the names are the union, quantities of shared names are summed,
\* and for every name of A the stored asset record and price are A's.
C8_Merge ==
  call.op = "operator+" =>
    LET A == pre
        B == call.rhs
        seq == AddedOneByOne(A, B, 1)
    IN /\ err = NoErr <=> seq.ok
       /\ err = NoErr <=>
            \A k \in Keys(A) \cap Keys(B) : Agree(At(A, k).asset, At(B, k).asset)
       /\ err # NoErr => err.kind = "invalid_argument" /\ out = <<>>
       /\ err = NoErr =>
            /\ out = seq.m
            /\ Keys(out) = Keys(A) \cup Keys(B)
            /\ Len(out) = Cardinality(Keys(out))
            /\ \A k \in Keys(out) :
                 /\ QuantityOf(out, k) = FAdd(QuantityOf(A, k), QuantityOf(B, k))
                 /\ At(out, k).asset = IF k \in Keys(A) THEN At(A, k).asset
                                       ELSE At(B, k).asset

\* C8 witness: an operator+ that returned, with a shared name whose price
\* differs between the two sides and a name held by the right-hand side only
C8_Witness ==
  /\ call.op = "operator+"
  /\ err = NoErr
  /\ \E k \in Keys(pre) \cap Keys(call.rhs) :
       At(pre, k).asset.price_ # At(call.rhs, k).asset.price_
  /\ Keys(call.rhs) \ Keys(pre) # {}
  /\ Keys(pre) \ Keys(call.rhs) = {}

\* s comes before t in lexical order: s is a proper prefix of t, or at the
\* first position where they differ s has the smaller character
LexBefore(s, t) ==
  \/ Len(s) < Len(t) /\ \A j \in 1..Len(s) : s[j] = t[j]
  \/ \E i \in 1..Len(s) :
       /\ i <= Len(t)
       /\ \A j \in 1..(i - 1) : s[j] = t[j]
       /\ s[i] < t[i]

\* the names of S from the lexically first to the last
RECURSIVE Ascending(_)
Ascending(S) ==
  IF S = {} THEN <<>>
  ELSE LET first == CHOOSE x \in S : \A y \in S \ {x} : LexBefore(x, y)
       IN <<first>> \o Ascending(S \ {first})

\* C9: assetOrder() returns the stored names in ascending lexical order
\* without duplicates, and it is a function of the set of names held alone.
C9_AssetOrder ==
  LET order == assetOrder(positions_) IN
  /\ \A i \in 1..Len(order), j \in 1..Len(order) : i < j => LexBefore(order[i], order[j])
  /\ {order[i] : i \in 1..Len(order)} = Keys(positions_)
  /\ order = Ascending(Keys(positions_))

\* C9 witness: an addPosition has put a new name between two held names
C9_Witness ==
  /\ call.op = "addPosition"
  /\ err = NoErr
  /\ call.a.name_ \notin Keys(pre)
  /\ size(positions_) >= 3
  /\ \E i \in 2..(size(positions_) - 1) : assetOrder(positions_)[i] = call.a.name_

\* the values price x quantity of the entries stored under the first i names
\* of order, summed in double arithmetic from the first name on
RECURSIVE SumOfValues(_, _, _)
SumOfValues(m, order, i) ==
  IF i = 0 THEN 0
  ELSE FAdd(SumOfValues(m, order, i - 1),
            FMul(At(m, order[i]).asset.price_, At(m, order[i]).quantity))

\* the sum of the values of all entries of m, taken in ascending name order
ValueSum(m) == SumOfValues(m, Ascending(Keys(m)), Cardinality(Keys(m)))

\* C10: in every reachable state totalValue() is the sum over the stored
\* entries of price x quantity, and 0 for an empty portfolio (for the
\* portfolio operator+ returns as well).
C10_TotalValue ==
  /\ totalValue(positions_) = ValueSum(positions_)
  /\ totalValue(out) = ValueSum(out)
  /\ size(positions_) = 0 => totalValue(positions_) = 0

\* C10 witness: two positions of different values > 0 are held
C10_Witness ==
  /\ size(positions_) = 2
  /\ value(positions_[1].second) > 0
  /\ value(positions_[2].second) > value(positions_[1].second)
  /\ totalValue(positions_) > value(positions_[2].second)

\* the value price x quantity of the entry m holds under the name k
ValueOf(m, k) == FMul(At(m, k).asset.price_, At(m, k).quantity)

\* sum over the first i names of order of (value / total value) x mu, in
\* double arithmetic from the first name on
RECURSIVE WeightedMu(_, _, _)
WeightedMu(m, order, i) ==
  IF i = 0 THEN FltZero
  ELSE FltAdd(WeightedMu(m, order, i - 1),
              FltMul(FltDiv(Flt(ValueOf(m, order[i])), Flt(ValueSum(m))),
                     Flt(At(m, order[i]).asset.mu_)))

\* half the sum of two doubles
HalfSum(x, y) == FltDiv(FltAdd(x, y), Flt(2))

\* C11: expectedReturn() never fails; it returns 0 when totalValue() <= 0
\* (the empty portfolio included), and otherwise the sum over the stored
\* assets of (value / totalValue) x mu; for two positions of equal value it
\* is the mean of the two mu (0.06 for 0.10 and 0.02).
C11_ExpectedReturn ==
  call.op = "expectedReturn" =>
    LET m == positions_
        names == Ascending(Keys(m))
    IN /\ err = NoErr
       /\ ValueSum(m) <= 0 => ret = FltZero
       /\ ValueSum(m) > 0 => ret = WeightedMu(m, names, Len(names))
       /\ (Len(names) = 2 /\ ValueSum(m) > 0 /\ ValueOf(m, names[1]) = ValueOf(m, names[2])) =>
            ret = HalfSum(Flt(At(m, names[1]).asset.mu_), Flt(At(m, names[2]).asset.mu_))

\* C11 witness: expectedReturn() of two positions of equal value and
\* different mu was taken, and is not 0
C11_Witness ==
  /\ call.op = "expectedReturn"
  /\ size(positions_) = 2
  /\ value(positions_[1].second) = value(positions_[2].second)
  /\ positions_[1].second.asset.mu_ # positions_[2].second.asset.mu_
  /\ positions_[1].second.asset.price_ # positions_[2].second.asset.price_
  /\ ret # FltZero

\* the three calls of the risk engine that take a correlation matrix
RiskOps == {"varianceApprox", "volatilityApprox", "varianceContributionsApprox"}

\* the all-zero vector of n doubles
Zeros(n) == [i \in 1..n |-> FltZero]

\* C12: on a portfolio that is empty or whose totalValue() is <= 0,
\* varianceApprox and volatilityApprox return 0 and
\* varianceContributionsApprox returns size() zeros, for every matrix, valid
\* or not, without raising an error.
C12_NoExposureNoError ==
  (call.op \in RiskOps /\ (size(positions_) = 0 \/ ValueSum(positions_) <= 0)) =>
    /\ err = NoErr
    /\ ret = IF call.op = "varianceContributionsApprox"
             THEN Zeros(size(positions_)) ELSE FltZero

\* x lies outside [-1, 1]
OutsideUnit(x) == CorrLess(x, Corr(0 - 2, 0)) \/ CorrLess(Corr(2, 0), x)

\* C13: on a portfolio of n >= 1 assets, a call of the risk engine fails with
\* InvalidArgument whenever an entry of the matrix, on or off the diagonal,
\* lies outside [-1, 1].
C13_EntryOutOfRange ==
  (call.op \in RiskOps /\ size(positions_) >= 1
     /\ \E i \in 1..Len(call.corr) : \E j \in 1..Len(call.corr[i]) :
          OutsideUnit(call.corr[i][j])) =>
    err.kind = "invalid_argument"

\* corr does not have exactly n rows of exactly n columns
WrongShape(corr, n) == Len(corr) # n \/ \E r \in 1..Len(corr) : Len(corr[r]) # n

\* C14: on a portfolio of n >= 1 assets, a call of the risk engine with a
\* matrix that does not have exactly n rows, or has a row that does not have
\* exactly n columns, fails with InvalidArgument without having read any
\* entry; and no call ever reads an entry outside the matrix it was given.
C14_ShapeFirst ==
  call.op \in RiskOps =>
    /\ (size(positions_) >= 1 /\ WrongShape(call.corr, size(positions_))) =>
         err.kind = "invalid_argument" /\ reads = {}
    /\ \A x \in reads : x[1] \in 1..Len(call.corr) /\ x[2] \in 1..Len(call.corr[x[1]])

\* C14 witness: a matrix with the right number of rows whose first row is
\* full and whose last row is short was rejected
C14_Witness ==
  /\ call.op \in RiskOps
  /\ size(positions_) >= 2
  /\ Len(call.corr) = size(positions_)
  /\ Len(call.corr[1]) = size(positions_)
  /\ Len(call.corr[Len(call.corr)]) < size(positions_)
  /\ err.kind = "invalid_argument"

\* x differs from 1.0 by more than 1e-10
FarFromOne(x) == CorrLess(Corr(2, 2), x) \/ CorrLess(x, Corr(2, 0 - 2))

\* x and y differ by more than 1e-10
FarApart(x, y) ==
  CorrLess(Corr(0, 2), CorrSub(x, y)) \/ CorrLess(Corr(0, 2), CorrSub(y, x))

\* C15: on a portfolio of n >= 1 assets, a call of the risk engine with an
\* n x n matrix one of whose diagonal entries differs from 1.0 by more than
\* 1e-10 fails with InvalidArgument, whatever the other entries are.
C15_DiagonalRejected ==
  (call.op \in RiskOps /\ size(positions_) >= 1
     /\ ~WrongShape(call.corr, size(positions_))
     /\ \E i \in 1..Len(call.corr) : FarFromOne(call.corr[i][i])) =>
    err.kind = "invalid_argument"

\* C15 witness: the first diagonal entry is 1, the last one is below 1 by
\* more than 1e-10, an entry off the diagonal is not 0, and the call failed
C15_Witness ==
  /\ call.op \in RiskOps
  /\ size(positions_) >= 2
  /\ ~WrongShape(call.corr, size(positions_))
  /\ call.corr[1][1] = CorrOne
  /\ CorrLess(call.corr[Len(call.corr)][Len(call.corr)], Corr(2, 0 - 2))
  /\ call.corr[1][2] # CorrZero
  /\ err.kind = "invalid_argument"

\* corr has a unit diagonal within 1e-10, all entries in [-1, 1] and is
\* symmetric within 1e-10
ValidEntries(corr) ==
  /\ \A i \in 1..Len(corr) : ~FarFromOne(corr[i][i])
  /\ \A i \in 1..Len(corr), j \in 1..Len(corr) : ~OutsideUnit(corr[i][j])
  /\ \A i \in 1..Len(corr), j \in 1..Len(corr) : ~FarApart(corr[i][j], corr[j][i])

\* C16: on a portfolio of n >= 1 assets, a call of the risk engine with an
\* n x n matrix fails with InvalidArgument when some pair i # j has
\* |C[i][j] - C[j][i]| > 1e-10, and is accepted when the matrix has a unit
\* diagonal within 1e-10, all entries in [-1, 1] and symmetry within 1e-10.
C16_Symmetry ==
  (call.op \in RiskOps /\ size(positions_) >= 1
     /\ ~WrongShape(call.corr, size(positions_))) =>
    /\ (\E i \in 1..Len(call.corr), j \in 1..Len(call.corr) :
          i # j /\ FarApart(call.corr[i][j], call.corr[j][i])) =>
         err.kind = "invalid_argument"
    /\ ValidEntries(call.corr) => err = NoErr

\* C16 witness: a matrix with a unit diagonal and entries in [-1, 1] whose
\* entry above the diagonal is the smaller one of an asymmetric pair was
\* rejected as not symmetric
C16_Witness ==
  /\ call.op \in RiskOps
  /\ size(positions_) >= 2
  /\ ~WrongShape(call.corr, size(positions_))
  /\ CorrLess(call.corr[1][2], call.corr[2][1])
  /\ err = InvalidArgument("varianceApprox: correlation matrix must be symmetric.")

\* the entries of a vector of doubles summed in double arithmetic, from the
\* first to the i-th
RECURSIVE SumUpTo(_, _)
SumUpTo(v, i) == IF i = 0 THEN FltZero ELSE FltAdd(SumUpTo(v, i - 1), v[i])

\* m * 2^e <= 1e-9 for m >= 0, variances being counted in units of 1e-24:
\* 1e-9 is 1e15 units, and 1e15 = 1907348632.8 * 2^19
AtMostTol(m, e) ==
  IF m = 0 \/ e < 19 THEN TRUE
  ELSE IF e - 19 > 30 THEN FALSE
  ELSE m <= 1907348632 \div (2 ^ (e - 19))

\* |x - y| <= 1e-9, the difference being exact; when the exponents are so far
\* apart that it is the larger operand to 2^-20, the larger operand decides
WithinTol(x, y) ==
  IF x.m = 0 THEN AtMostTol(Fabs(y.m), y.e)
  ELSE IF y.m = 0 THEN AtMostTol(Fabs(x.m), x.e)
  ELSE IF x.e - y.e > 20 THEN AtMostTol(Fabs(x.m), x.e)
  ELSE IF y.e - x.e > 20 THEN AtMostTol(Fabs(y.m), y.e)
  ELSE LET lo == IF x.e < y.e THEN x.e ELSE y.e
       IN AtMostTol(Fabs(x.m * 2 ^ (x.e - lo) - y.m * 2 ^ (y.e - lo)), lo)

\* the weight value / total value of the entry m holds under the name k, and
\* the sigma of its asset
WeightOf(m, k) == FltDiv(Flt(ValueOf(m, k)), Flt(ValueSum(m)))

SigmaOf(m, k) == Flt(At(m, k).asset.sigma_)

\* sum over the first j names of order of C[i][j] x sigma_i x sigma_j x w_j
RECURSIVE RowSum(_, _, _, _, _)
RowSum(m, corr, order, i, j) ==
  IF j = 0 THEN FltZero
  ELSE FltAdd(RowSum(m, corr, order, i, j - 1),
              FltMul(FltMul(FltMul(CorrFlt(corr[i][j]), SigmaOf(m, order[i])),
                            SigmaOf(m, order[j])),
                     WeightOf(m, order[j])))

\* the largest sigma of the portfolio, as [m, e]
SigmaMax(m) ==
  LET S == {m[i].second.asset.sigma_ : i \in 1..Len(m)}
  IN Flt(CHOOSE x \in S : \A y \in S : y <= x)

\* 8 (n^2 + 2n + 8) x sigmaMax^2 x 2^-MantissaBits <= 1e-9: the rounding of the
\* at most n^2 + 2n + 8 operations that separate the two results stays below
\* the tolerance
RoundingBelowTol(m) ==
  LET n == Len(m)
      s == SigmaMax(m)
  IN AtMostTol(8 * (n * n + 2 * n + 8) * s.m * s.m, 2 * s.e - MantissaBits)

\* the call is varianceContributionsApprox on a portfolio of total value > 0
\* and the matrix was accepted
ContributionsTaken ==
  /\ call.op = "varianceContributionsApprox"
  /\ ValueSum(positions_) > 0
  /\ err = NoErr

\* the vector has size() entries, and entry i is that of the i-th name of
\* assetOrder(): w_i x sum over j of C[i][j] x sigma_i x sigma_j x w_j
EntriesByName ==
  LET m == positions_
      order == assetOrder(m)
  IN /\ Len(ret) = size(m)
     /\ \A i \in 1..Len(order) :
          ret[i] = FltMul(WeightOf(m, order[i]), RowSum(m, call.corr, order, i, Len(order)))

\* the entries sum to varianceApprox(C) within 1e-9
SumIsVariance ==
  WithinTol(SumUpTo(ret, Len(ret)), varianceApprox(positions_, call.corr).val)

\* C17 as stated: for every portfolio with totalValue() > 0 and every valid
\* matrix C, varianceContributionsApprox(C) has size() entries, entry i
\* belongs to the i-th name of assetOrder(), and the entries sum to
\* varianceApprox(C) within 1e-9.
C17_AsStated ==
  ContributionsTaken => EntriesByName /\ SumIsVariance

\* C17 amended: the vector has size() entries and entry i belongs to the i-th
\* name of assetOrder(); the entries sum to varianceApprox(C) up to rounding,
\* within 1e-9 as long as 8 (n^2 + 2n + 8) x sigmaMax^2 x 2^-p <= 1e-9 for
\* doubles of p significant bits.
C17_Contributions ==
  ContributionsTaken =>
    /\ EntriesByName
    /\ RoundingBelowTol(positions_) => SumIsVariance

\* C17 witness: the contributions of three positions were taken with a
\* matrix that has entries off the diagonal, each is the entry of its name and
\* not 0, and their sum is within 1e-9 of the variance without being equal
\* to it
C17_Witness ==
  /\ ContributionsTaken
  /\ size(positions_) = 3
  /\ call.corr[1][2] # CorrZero
  /\ \A i \in 1..3 : ret[i] # FltZero
  /\ EntriesByName
  /\ RoundingBelowTol(positions_)
  /\ SumIsVariance
  /\ SumUpTo(ret, Len(ret)) # varianceApprox(positions_, call.corr).val

\* the double sum over i, j of w_i x w_j x C[i][j] x sigma_i x sigma_j, i and
\* j being positions in order, taken row by row up to the k-th term
RECURSIVE DoubleSum(_, _, _, _)
DoubleSum(m, corr, order, k) ==
  IF k = 0 THEN FltZero
  ELSE LET n == Len(order)
           i == ((k - 1) \div n) + 1
           j == ((k - 1) % n) + 1
       IN FltAdd(DoubleSum(m, corr, order, k - 1),
                 FltMul(FltMul(FltMul(FltMul(WeightOf(m, order[i]), WeightOf(m, order[j])),
                                      CorrFlt(corr[i][j])),
                               SigmaOf(m, order[i])),
                        SigmaOf(m, order[j])))

\* C18: for a portfolio with totalValue() > 0 and a valid matrix C,
\* varianceApprox(C) returns the full double sum over i, j of
\* w_i x w_j x C[i][j] x sigma_i x sigma_j, index i being the i-th name of
\* assetOrder() and w_i = value_i / totalValue(); for two positions of equal
\* value and the identity matrix it is (sigma_1^2 + sigma_2^2) / 4 (0.010625
\* for 0.20 and 0.05).
C18_Variance ==
  (call.op = "varianceApprox" /\ ValueSum(positions_) > 0
     /\ ~WrongShape(call.corr, size(positions_)) /\ ValidEntries(call.corr)) =>
    LET m == positions_
        order == assetOrder(m)
        n == Len(order)
    IN /\ err = NoErr
       /\ ret = DoubleSum(m, call.corr, order, n * n)
       /\ (n = 2 /\ ValueOf(m, order[1]) = ValueOf(m, order[2])
             /\ call.corr = Sym2(CorrZero)) =>
            ret = FltDiv(FltAdd(FltMul(SigmaOf(m, order[1]), SigmaOf(m, order[1])),
                                FltMul(SigmaOf(m, order[2]), SigmaOf(m, order[2]))),
                         Flt(4))

\* C18 witness: the variance of two positions of equal value, different
\* price and different sigma was taken with the identity matrix, and is not 0
C18_Witness ==
  /\ call.op = "varianceApprox"
  /\ err = NoErr
  /\ ret # FltZero
  /\ size(positions_) = 2
  /\ call.corr = Sym2(CorrZero)
  /\ value(positions_[1].second) = value(positions_[2].second)
  /\ positions_[1].second.asset.sigma_ # positions_[2].second.asset.sigma_
  /\ positions_[1].second.asset.price_ # positions_[2].second.asset.price_

\* the double x > 0 written with a mantissa of MantissaBits bits
RECURSIVE FullMantissa(_, _)
FullMantissa(m, e) ==
  IF m >= 2 ^ (MantissaBits - 1) THEN [m |-> m, e |-> e] ELSE FullMantissa(2 * m, e - 1)

\* x <= y for exact values x.m * 2^x.e and y.m * 2^y.e with 0 <= m < 2^12
DyadicLeq(x, y) ==
  IF x.m = 0 THEN TRUE
  ELSE IF y.m = 0 THEN FALSE
  ELSE IF x.e - y.e > 12 THEN FALSE
  ELSE IF y.e - x.e > 12 THEN TRUE
  ELSE LET lo == IF x.e < y.e THEN x.e ELSE y.e
       IN x.m * 2 ^ (x.e - lo) <= y.m * 2 ^ (y.e - lo)

\* r >= 0 is a double nearest to the square root of v >= 0: v lies between the
\* squares of the two points half a unit in the last place below and above r
NearestRoot(r, v) ==
  IF v.m = 0 \/ r.m <= 0 THEN r.m = 0 /\ v.m = 0
  ELSE LET f == FullMantissa(r.m, r.e)
           below == [m |-> (2 * f.m - 1) * (2 * f.m - 1), e |-> 2 * f.e - 2]
           above == [m |-> (2 * f.m + 1) * (2 * f.m + 1), e |-> 2 * f.e - 2]
       IN DyadicLeq(below, v) /\ DyadicLeq(v, above)

\* C19: volatilityApprox(C) fails exactly when varianceApprox(C) fails, with
\* the same error; otherwise it is never negative: it is the square root of
\* varianceApprox(C) when that is >= 0, and 0 when it is negative.
C19_Volatility ==
  call.op = "volatilityApprox" =>
    LET v == varianceApprox(positions_, call.corr) IN
    /\ err = v.err
    /\ err = NoErr =>
         /\ ret.m >= 0
         /\ v.val.m >= 0 => NearestRoot(ret, v.val)
         /\ v.val.m < 0 => ret = FltZero

\* C19 witness: the variance of three positions under a valid matrix is
\* negative and the volatility returned is 0
C19_Witness ==
  /\ call.op = "volatilityApprox"
  /\ err = NoErr
  /\ size(positions_) = 3
  /\ varianceApprox(positions_, call.corr).val.m < 0
  /\ ret = FltZero

\* C20: p[name], through the mutable and through the read-only accessor,
\* fails with NotFound when the name is not stored, on the empty and on a
\* populated portfolio, and returns the stored entry when it is; in both
\* cases no entry is inserted and size() is unchanged.
C20_IndexedAccess ==
  call.op \in {"operator[]", "operator[] const"} =>
    /\ positions_ = pre
    /\ size(positions_) = size(pre)
    /\ call.assetName \notin Keys(pre) => err.kind = "out_of_range"
    /\ call.assetName \in Keys(pre) => err = NoErr /\ ret = At(pre, call.assetName)

\* C20 witness: the mutable accessor failed with NotFound on a populated
\* portfolio that holds another name
C20_Witness ==
  /\ call.op = "operator[]"
  /\ size(pre) = 1
  /\ call.assetName \notin Keys(pre)
  /\ err.kind = "out_of_range"
  /\ size(positions_) = 1

\* C21: constructing an Asset succeeds exactly when the name is non-empty,
\* price >= 0 and volatility >= 0, whatever the sign of the expected return,
\* and then holds the four values given; every other construction fails with
\* InvalidArgument.  A Position is never constructed with quantity <= 0.
C21_Construction ==
  /\ call.op = "Asset" =>
       /\ err = NoErr <=>
            (call.name # <<>> /\ call.price >= 0 /\ call.volatility >= 0)
       /\ err # NoErr => err.kind = "invalid_argument" /\ mem = preMem
       /\ err = NoErr =>
            /\ ret = [name_ |-> call.name, price_ |-> call.price,
                      mu_ |-> call.expected_return, sigma_ |-> call.volatility]
            /\ mem[CallerA] = ret
  /\ call.op = "Position" =>
       /\ err = NoErr <=> call.quantity > 0
       /\ err # NoErr => err.kind = "invalid_argument"
       /\ err = NoErr => ret = [asset |-> mem[CallerA], quantity |-> call.quantity]

\* C21 witness: an asset of negative expected return, price 0 and
\* volatility 0 was constructed
C21_Witness ==
  /\ call.op = "Asset"
  /\ call.expected_return < 0
  /\ call.price = 0
  /\ call.volatility = 0
  /\ err = NoErr
  /\ mem[CallerA].mu_ < 0

\* the Asset objects alive hold a name, a price >= 0 and a volatility >= 0
ValidAssets ==
  \A x \in DOMAIN mem :
    mem[x].name_ # <<>> /\ mem[x].price_ >= 0 /\ mem[x].sigma_ >= 0

\* C22: setPrice(p) with p < 0 fails with InvalidArgument and leaves the
\* price as it was; with p >= 0 it replaces the price of that object and
\* changes nothing else; name, expected return and volatility of an object
\* never change once it is constructed, and its price is >= 0 in every
\* reachable state.
C22_SetPrice ==
  /\ ValidAssets
  /\ call.op = "setPrice" =>
       /\ DOMAIN mem = DOMAIN preMem
       /\ \A x \in DOMAIN mem \ {call.place} : mem[x] = preMem[x]
       /\ call.price < 0 => err.kind = "invalid_argument" /\ mem = preMem
       /\ call.price >= 0 =>
            /\ err = NoErr
            /\ mem[call.place] = [preMem[call.place] EXCEPT !.price_ = call.price]
  /\ call.op \in {"setPrice", "Position"} =>
       \A x \in DOMAIN preMem :
         /\ x \in DOMAIN mem
         /\ mem[x].name_ = preMem[x].name_
         /\ mem[x].mu_ = preMem[x].mu_
         /\ mem[x].sigma_ = preMem[x].sigma_

\* C22 witness: a setPrice replaced a price by a different one
C22_Witness ==
  /\ call.op = "setPrice"
  /\ err = NoErr
  /\ mem[call.place].price_ = call.price
  /\ preMem[call.place].price_ # call.price

\* what the caller can see of a portfolio, before and after the last call
Seen(x) == Deref(mem, pf[x])

SeenBefore(x) == Deref(preMem, prePf[x])

\* C23: portfolios share no state.  lhs + rhs leaves lhs and rhs as they
\* were whether it returns or throws; after any add, copy or merge, a
\* setPrice on the caller's Asset or on an asset stored in one portfolio
\* changes what is seen through no other portfolio, nor the caller's
\* Asset when it went through a portfolio.
C23_NoSharedState ==
  /\ call.op = "operator+" =>
       /\ Seen("lhs") = SeenBefore("lhs")
       /\ Seen("rhs") = SeenBefore("rhs")
       /\ CallerA \in DOMAIN preMem => mem[CallerA] = preMem[CallerA]
  /\ call.op = "setPrice" =>
       /\ \A y \in Owners \ {call.via} : Seen(y) = SeenBefore(y)
       /\ call.via # "a" /\ CallerA \in DOMAIN preMem => mem[CallerA] = preMem[CallerA]
  /\ call.op \in {"addPosition", "copy"} =>
       /\ \A y \in Owners \ {IF call.op = "copy" THEN "rhs" ELSE call.on} :
            Seen(y) = SeenBefore(y)
       /\ CallerA \in DOMAIN preMem => mem[CallerA] = preMem[CallerA]

\* C23 witness: after a merge of two non-empty portfolios, the price of an
\* asset was changed through lhs, and merged, which holds an asset of that
\* name, still shows the old price
C23_Witness ==
  /\ call.op = "setPrice"
  /\ call.via = "lhs"
  /\ err = NoErr
  /\ Len(pf.rhs) > 0
  /\ \E i \in 1..Len(pf.merged), j \in 1..Len(pf.lhs) :
       /\ pf.merged[i].first = call.name
       /\ pf.lhs[j].first = call.name
       /\ mem[pf.lhs[j].second.asset].price_ = call.price
       /\ mem[pf.merged[i].second.asset].price_ # call.price

\* a step that calls the risk engine
RiskCall == call'.op \in {"varianceApprox", "volatilityApprox", "varianceContributionsApprox"}

\* C24: a call to varianceApprox, volatilityApprox or
\* varianceContributionsApprox, whether it returns or throws, leaves the
\* position map and the matrix handed to it as they were (the matrix is
\* never clamped or repaired), and the same call made again on the same
\* portfolio and matrix has the same outcome.
C24_PureReads ==
  [][RiskCall =>
       /\ positions_' = positions_
       /\ call'.corr = call.corr
       /\ call'.op = call.op => err' = err /\ ret' = ret]_vars

\* C24 witness: varianceApprox read entries of a 2 x 2 matrix and threw on
\* an entry above 1; the matrix holds that entry after the call
C24_Witness ==
  /\ call.op = "varianceApprox"
  /\ err.kind = "invalid_argument"
  /\ Len(positions_) = 2
  /\ Len(call.corr) = 2
  /\ Len(call.corr[1]) = 2
  /\ CorrLess(CorrOne, call.corr[1][2])
  /\ pre = positions_
  /\ reads # {}

\* C27 (console front end): an InvalidArgument or NotFound raised by a menu
\* action is caught and reported, after which the menu loop keeps running
\* on the portfolio as it was before the action; the error neither ends
\* the session nor discards the portfolio.
C27_ErrorsSurvived ==
  err # NoErr => session = "running" /\ positions_ = pre

\* ---------------------------------------------------- CSV texts (mainUI.cpp)
\* A text is the sequence of its lines, a line the sequence of its cells under
\* the delimiter the first line selects, <<>> being a blank line.  A cell is a
\* word (a string of character codes: 'a'..'z' are 1..26, '_' is 0 and
\* 'A'..'Z' are -26..-1, which keeps the order of the characters) or a decimal
\* numeral d * 10^x.  The core only compares, adds and multiplies prices and
\* quantities, so their unit is free: in the texts and forms of the front end
\* every numeral, whatever its column, counts units of 1e-12.  The first cell
\* of a record is a word in every text considered.
Txt(w) == [k |-> "txt", w |-> w, d |-> 0, x |-> 0]

Num(d, x) == [k |-> "num", w |-> <<>>, d |-> d, x |-> x]

\* a double written outside the position table, kept as the double it prints
Dbl(f) == [k |-> "dbl", w |-> <<>>, d |-> 0, x |-> 0, f |-> f]

W_name == <<14, 1, 13, 5>>

W_Name == <<0 - 13, 1, 13, 5>>

W_asset == <<1, 19, 19, 5, 20>>

W_qty == <<17, 20, 25>>

W_price == <<16, 18, 9, 3, 5>>

W_mu == <<13, 21>>

W_sigma == <<19, 9, 7, 13, 1>>

W_value == <<22, 1, 12, 21, 5>>

W_metric == <<13, 5, 20, 18, 9, 3>>

W_total_value == <<20, 15, 20, 1, 12, 0, 22, 1, 12, 21, 5>>

W_expected_return == <<5, 24, 16, 5, 3, 20, 5, 4, 0, 18, 5, 20, 21, 18, 14>>

W_volatility == <<22, 15, 12, 1, 20, 9, 12, 9, 20, 25>>

W_risk_share_ == <<18, 9, 19, 11, 0, 19, 8, 1, 18, 5, 0>>

\* std::tolower on one character, and on a string
tolower(c) == IF c < 0 THEN c + 27 ELSE c

ToLower(w) == [i \in 1..Len(w) |-> tolower(w[i])]

\* the number of decimal digits of x >= 0 (0 has none)
RECURSIVE DecDigits(_)
DecDigits(x) == IF x = 0 THEN 0 ELSE 1 + DecDigits(x \div 10)

\* a numeral without trailing zeros in d
RECURSIVE NumNorm(_, _)
NumNorm(d, x) ==
  IF d = 0 THEN Num(0, 0)
  ELSE IF d % 10 = 0 THEN NumNorm(d \div 10, x + 1)
  ELSE Num(d, x)

\* the significant digits an ostream keeps of a double (precision())
StreamPrecision == 6

\* operator<<(double) with the default precision: v * 10^x to six significant
\* digits, nearest, ties to even
StreamDouble(v, x) ==
  LET a == Fabs(v)
      n == DecDigits(a)
      sign == IF v < 0 THEN 0 - 1 ELSE 1
  IN IF n <= StreamPrecision THEN NumNorm(v, x)
     ELSE LET s == 10 ^ (n - StreamPrecision)
              q == a \div s
              r == a % s
              up == IF 2 * r > s \/ (2 * r = s /\ q % 2 = 1) THEN 1 ELSE 0
          IN NumNorm(sign * (q + up), x + n - StreamPrecision)

\* parseDouble: whether the whole cell is a number, and the number (one finer
\* than the unit is counted to the unit below)
parseDouble(cell) ==
  IF cell.k = "num"
  THEN [ok |-> TRUE,
        val |-> IF cell.x >= 0 THEN cell.d * 10 ^ cell.x
                ELSE cell.d \div 10 ^ (0 - cell.x)]
  ELSE [ok |-> FALSE, val |-> 0]

NonBlank(line) == line # <<>>

\* portfolioFromCSVText: whether the first line is a header
hasHeader(header) ==
  /\ Len(header) >= 5
  /\ ToLower(header[1].w) \in {W_name, W_asset}

\* portfolioFromCSVText: the loop over lines[i..], imported and rowCount being
\* what the rows before i made
RECURSIVE portfolioFromCSVRows(_, _, _, _)
portfolioFromCSVRows(lines, i, imported, rowCount) ==
  IF i > Len(lines)
  THEN IF rowCount = 0
       THEN [err |-> InvalidArgument("CSV contains no data row."), val |-> <<>>]
       ELSE [err |-> NoErr, val |-> imported]
  ELSE
    LET cols == lines[i] IN
    IF Len(cols) < 5
    THEN [err |-> InvalidArgument("CSV line: expected 5 columns (name,price,mu,sigma,qty)."),
          val |-> <<>>]
    ELSE
      LET price == parseDouble(cols[2])
          mu == parseDouble(cols[3])
          sigma == parseDouble(cols[4])
          qty == parseDouble(cols[5])
      IN
      IF ~price.ok \/ ~mu.ok \/ ~sigma.ok \/ ~qty.ok
      THEN [err |-> InvalidArgument("CSV line: invalid numeric value."), val |-> <<>>]
      ELSE
        LET a == AssetCtor(cols[1].w, price.val, mu.val, sigma.val) IN
        IF a.err # NoErr THEN [err |-> a.err, val |-> <<>>]
        ELSE
          LET r == addPosition(imported, a.val, qty.val) IN
          IF r.err # NoErr THEN [err |-> r.err, val |-> <<>>]
          ELSE portfolioFromCSVRows(lines, i + 1, r.positions_, rowCount + 1)

\* an import that never takes the first line for a header
portfolioFromCSVText_noHeader(csvText) ==
  LET lines == SelectSeq(csvText, NonBlank) IN
  IF lines = <<>> THEN [err |-> InvalidArgument("CSV empty."), val |-> <<>>]
  ELSE portfolioFromCSVRows(lines, 1, <<>>, 0)

\* portfolioFromCSVText: the exception raised (NoErr if none) and the
\* portfolio returned
portfolioFromCSVText(csvText) ==
  LET lines == SelectSeq(csvText, NonBlank) IN
  IF lines = <<>> THEN [err |-> InvalidArgument("CSV empty."), val |-> <<>>]
  ELSE portfolioFromCSVRows(lines, IF hasHeader(lines[1]) THEN 2 ELSE 1, <<>>, 0)

\* hasCompatibleMatrixSize
hasCompatibleMatrixSize(corr, n) ==
  /\ Len(corr) = n
  /\ \A i \in 1..Len(corr) : Len(corr[i]) = n

\* exportPortfolioCSV: the exception raised (NoErr if none) and the text
exportPortfolioCSV(p, corr, corrAvailable) ==
  LET head == <<Txt(W_name), Txt(W_qty), Txt(W_price), Txt(W_mu), Txt(W_sigma),
                Txt(W_value)>>
      rows == [i \in 1..Len(p) |->
                 LET pos == p[i].second IN
                 <<Txt(p[i].first),
                   StreamDouble(pos.quantity, 0),
                   StreamDouble(pos.asset.price_, 0),
                   StreamDouble(pos.asset.mu_, 0),
                   StreamDouble(pos.asset.sigma_, 0),
                   StreamDouble(value(pos), 0 - 12)>>]
      metrics == << <<>>,
                    <<Txt(W_metric), Txt(W_value)>>,
                    <<Txt(W_total_value), StreamDouble(totalValue(p), 0 - 12)>>,
                    <<Txt(W_expected_return), Dbl(expectedReturn(p))>> >>
      text == <<head>> \o rows \o metrics
  IN
  IF ~corrAvailable THEN [err |-> NoErr, val |-> text]
  ELSE
    LET vol == volatilityApprox(p, corr)
        ord == assetOrder(p)
        contrib == varianceContributionsApprox(p, corr)
        totalVar == varianceApprox(p, corr)
    IN
    IF vol.err # NoErr THEN [err |-> vol.err, val |-> <<>>]
    ELSE
      LET shares == IF totalVar.val.m > 0 /\ Len(contrib.val) = Len(ord)
                    THEN [i \in 1..Len(ord) |->
                            <<Txt(W_risk_share_ \o ord[i]),
                              Dbl(FltDiv(contrib.val[i], totalVar.val))>>]
                    ELSE <<>>
      IN [err |-> NoErr,
          val |-> text \o << <<Txt(W_volatility), Dbl(vol.val)>> >> \o shares]

\* ---------------------------------------------- HTTP front end (mainUI.cpp)
\* A server thread is idle or serves one request.  While it serves, thr[t] is
\*   pc      : "lock" / "lock2" / "page": about to construct the lock_guard of
\*             the handler's first block, of its second block, of pageHTML;
\*             "cs" / "cs2" / "render": inside that block; "fetch": between
\*             the two blocks of /metrics_auto
\*   kind, req : the route and the parameters of the request
\*   local   : the handler's local (the Asset, the imported Portfolio, the
\*             matrix M, or tickers and corr)
\*   exc     : the exception the handler caught (NoErr if none)
\*   inCatch : whether the handler is in its catch block
\*   applied : for each use of the cached matrix on a portfolio, the labels
\*             of the matrix and the asset order of that portfolio
\*   before  : for an import, g_portfolio and the cache as they were when
\*             the request came
\* After the response, call is the request with what it applied, err the
\* exception its page reported (or that left the handler), ret the CSV text
\* of an export.
RuntimeError(msg) == [kind |-> "runtime_error", what |-> msg]

Serving(kind, req) ==
  [pc |-> "lock", kind |-> kind, req |-> req, local |-> <<>>, exc |-> NoErr,
   inCatch |-> FALSE, applied |-> {}, before |-> <<>>]

\* the handler calls pageHTML(message) and returns
Page(s) == [s EXCEPT !.pc = "page"]

\* catch (const std::exception& e): pageHTML("Error: " + e.what())
Caught(s, e) == [s EXCEPT !.pc = "page", !.exc = e, !.inCatch = TRUE]

\* std::lock_guard<std::mutex> lock(g_mutex): the owner of the lock once the
\* constructor has returned in thread t
lock_guard(t) == t

\* a guard whose destructor leaves the lock to its owner
lock_guard_dtor_keeps(owner) == owner

\* ~lock_guard, at the end of the block and when an exception unwinds it
lock_guard_dtor(owner) == 0

\* a request arrives on the idle thread t, whose handler runs up to s
Accept(t, s) ==
  /\ thr[t].pc = "idle"
  /\ thr' = [thr EXCEPT ![t] = s]
  /\ call' = [op |-> "serving"]
  /\ err' = NoErr
  /\ ret' = <<>>
  /\ UNCHANGED <<coreVars, objVars, session, g_portfolio, g_cache, g_mutex>>

\* thread t leaves the block it is in as s, the globals being P and C
Leave(t, s, P, C) ==
  /\ thr' = [thr EXCEPT ![t] = s]
  /\ g_portfolio' = P
  /\ g_cache' = C
  /\ g_mutex' = lock_guard_dtor(g_mutex)
  /\ UNCHANGED <<coreVars, objVars, session, call, err, ret>>

\* thread t leaves its block and the handler returns: res.set_content
Respond(t, s, status, e, text) ==
  /\ thr' = [thr EXCEPT ![t] = Idle]
  /\ g_mutex' = lock_guard_dtor(g_mutex)
  /\ call' = [op |-> s.kind, req |-> s.req, before |-> s.before,
              applied |-> s.applied, status |-> status]
  /\ err' = e
  /\ ret' = text
  /\ UNCHANGED <<coreVars, objVars, session, g_portfolio, g_cache>>

\* GET /
Home(T) ==
  \E t \in T : Accept(t, Page(Serving("/", <<>>)))

\* fetchAssetFromYahoo: the quote of the ticker (it may also throw)
YahooQuote(ticker) == MkAsset(ticker, 1, 0, eps)

\* GET /add_yahoo, up to its block
AddYahoo(T, N, Q) ==
  \E t \in T, ticker \in N, qty \in Q :
    LET s == Serving("/add_yahoo", [name |-> ticker, qty |-> qty]) IN
    \E s2 \in IF qty <= 0 THEN {Page(s)}
              ELSE {[s EXCEPT !.local = YahooQuote(ticker)],
                    Caught(s, RuntimeError("Yahoo"))} :
      Accept(t, s2)

\* GET /add_manual, up to its block
AddManual(T, Forms) ==
  \E t \in T, f \in Forms :
    LET s == Serving("/add_manual", f)
        a == AssetCtor(f.name, f.price, f.mu, f.sigma)
    IN Accept(t, IF f.qty <= 0 THEN Page(s)
                 ELSE IF a.err # NoErr THEN Caught(s, a.err)
                 ELSE [s EXCEPT !.local = a.val])

\* GET /remove, up to its block
Remove(T, N, Q) ==
  \E t \in T, name \in N, qty \in Q :
    LET s == Serving("/remove", [name |-> name, qty |-> qty]) IN
    Accept(t, IF qty <= 0 THEN Page(s) ELSE s)

\* GET /what_if, up to its block
WhatIf(T, N, D) ==
  \E t \in T, name \in N, qtyDelta \in D :
    LET s == Serving("/what_if", [name |-> name, qtyDelta |-> qtyDelta]) IN
    Accept(t, IF qtyDelta = 0 THEN Page(s) ELSE s)

\* POST /import_csv, up to its block
ImportCsv(T, Texts) ==
  \E t \in T, csv_text \in Texts :
    \E imported \in {portfolioFromCSVText(csv_text)} :
      LET s == [Serving("/import_csv", [csv_text |-> csv_text])
                  EXCEPT !.before = [portfolio |-> g_portfolio, cache |-> g_cache]]
      IN
      Accept(t, IF imported.err # NoErr THEN Caught(s, imported.err)
                ELSE [s EXCEPT !.local = imported.val])

\* GET /export_csv, up to its block
ExportCsv(T) ==
  \E t \in T : Accept(t, Serving("/export_csv", <<>>))

\* GET /optimize with no parameter, up to its block
Optimize(T) ==
  \E t \in T : Accept(t, Serving("/optimize", <<>>))

\* GET /metrics_auto, up to its first block
MetricsAuto(T) ==
  \E t \in T : Accept(t, Serving("/metrics_auto", <<>>))

\* POST /metrics_manual, up to its block: M is what parseMatrixText made of
\* the text
MetricsManual(T, Ms) ==
  \E t \in T, M \in Ms :
    Accept(t, [Serving("/metrics_manual", [matrix |-> M]) EXCEPT !.local = M])

\* the quantity the portfolio P holds of a name (0 if none)
Held(P, name) ==
  LET it == MapFind(P, name) IN IF it = 0 THEN 0 ELSE P[it].second.quantity

\* the bound on the quantities: an add that would pass MaxQty waits
Fits(s) ==
  s.kind \in {"/add_yahoo", "/add_manual"} /\ s.pc = "lock"
    => Held(g_portfolio, s.local.name_) + s.req.qty <= MaxQty

\* the constructor of a lock_guard returns once the lock is free
Lock(T) ==
  \E t \in T :
    /\ thr[t].pc \in {"lock", "lock2", "page"}
    /\ g_mutex = 0
    /\ Fits(thr[t])
    /\ g_mutex' = lock_guard(t)
    /\ thr' = [thr EXCEPT ![t].pc = CASE @ = "lock" -> "cs"
                                      [] @ = "lock2" -> "cs2"
                                      [] OTHER -> "render"]
    /\ UNCHANGED <<coreVars, objVars, session, call, err, ret, g_portfolio, g_cache>>

\* the block of /add_yahoo and of /add_manual
AddLocked(T) ==
  \E t \in T :
    LET s == thr[t]
        r == addPosition(g_portfolio, s.local, s.req.qty)
    IN /\ s.pc = "cs"
       /\ s.kind \in {"/add_yahoo", "/add_manual"}
       /\ IF r.err # NoErr
          THEN Leave(t, Caught(s, r.err), g_portfolio, g_cache)
          ELSE Leave(t, Page(s), r.positions_, g_cache)

\* the block of /remove
RemoveLocked(T) ==
  \E t \in T :
    LET s == thr[t]
        r == removePosition(g_portfolio, s.req.name, s.req.qty)
    IN /\ s.pc = "cs"
       /\ s.kind = "/remove"
       /\ IF r.err # NoErr
          THEN Leave(t, Caught(s, r.err), g_portfolio, g_cache)
          ELSE Leave(t, Page(s), r.positions_, g_cache)

\* one use of the cached matrix C on the portfolio P
Use(C, P) == [labels |-> C.labels, order |-> assetOrder(P)]

\* /what_if: the simulated portfolio, or the exception
whatIfSimulated(P, name, qtyDelta) ==
  IF qtyDelta > 0
  THEN LET pos == operatorIndex(P, name) IN
       IF pos.err # NoErr THEN [err |-> pos.err, positions_ |-> P]
       ELSE addPosition(pos.positions_, pos.val.asset, qtyDelta)
  ELSE removePosition(P, name, Fabs(qtyDelta))

\* the block of /what_if
WhatIfLocked(T) ==
  \E t \in T :
    /\ thr[t].pc = "cs"
    /\ thr[t].kind = "/what_if"
    /\ \E simulated \in {whatIfSimulated(g_portfolio, thr[t].req.name, thr[t].req.qtyDelta)} :
       \E simVol \in {volatilityApprox(simulated.positions_, g_cache.corr)} :
         LET s == thr[t]
             n == Len(assetOrder(simulated.positions_))
             useCorr == g_cache.has /\ hasCompatibleMatrixSize(g_cache.corr, n)
             s1 == [s EXCEPT !.applied = @ \cup {Use(g_cache, simulated.positions_)}]
         IN IF simulated.err # NoErr
            THEN Leave(t, Caught(s, simulated.err), g_portfolio, g_cache)
            ELSE IF ~useCorr THEN Leave(t, Page(s), g_portfolio, g_cache)
            ELSE IF simVol.err # NoErr
            THEN Leave(t, Caught(s1, simVol.err), g_portfolio, g_cache)
            ELSE Leave(t, Page(s1), g_portfolio, g_cache)

\* the block of /import_csv
ImportLocked(T) ==
  \E t \in T :
    LET s == thr[t] IN
    /\ s.pc = "cs"
    /\ s.kind = "/import_csv"
    /\ Leave(t, Page(s), s.local, NoCache)

\* the block of /export_csv and the response that follows it
ExportLocked(T) ==
  \E t \in T :
    /\ thr[t].pc = "cs"
    /\ thr[t].kind = "/export_csv"
    /\ \E corrOk \in {g_cache.has
                      /\ hasCompatibleMatrixSize(g_cache.corr, Len(assetOrder(g_portfolio)))} :
       \E csv \in {exportPortfolioCSV(g_portfolio, g_cache.corr, corrOk)} :
         LET s == thr[t]
             s1 == IF corrOk THEN [s EXCEPT !.applied = @ \cup {Use(g_cache, g_portfolio)}]
                   ELSE s
         IN IF csv.err # NoErr
            THEN Leave(t, Caught(s1, csv.err), g_portfolio, g_cache)
            ELSE Respond(t, s1, "csv", NoErr, csv.val)

\* the block of /optimize: the candidates are valued with g_last_corr
OptimizeLocked(T) ==
  \E t \in T :
    LET s == thr[t]
        n == Len(assetOrder(g_portfolio))
    IN /\ s.pc = "cs"
       /\ s.kind = "/optimize"
       /\ IF n < 2
          THEN Leave(t, Caught(s, InvalidArgument("Need at least 2 assets to optimize.")),
                     g_portfolio, g_cache)
          ELSE IF ~(g_cache.has /\ hasCompatibleMatrixSize(g_cache.corr, n))
          THEN Leave(t, Caught(s, InvalidArgument("Compute correlation matrix first (auto or manual) before optimization.")),
                     g_portfolio, g_cache)
          ELSE Leave(t, Page([s EXCEPT !.applied = @ \cup {Use(g_cache, g_portfolio)}]),
                     g_portfolio, g_cache)

\* the first block of /metrics_auto, and the test of tickers.empty()
SnapshotLocked(T) ==
  \E t \in T :
    LET s == thr[t]
        tickers == assetOrder(g_portfolio)
        s1 == [s EXCEPT !.local = [tickers |-> tickers, corr |-> <<>>]]
    IN /\ s.pc = "cs"
       /\ s.kind = "/metrics_auto"
       /\ Leave(t, IF tickers = <<>> THEN Page(s1) ELSE [s1 EXCEPT !.pc = "fetch"],
                g_portfolio, g_cache)

\* correlationMatrixFromYahoo for n tickers: a symmetric matrix with 1.0 on
\* its diagonal and entries within [-1, 1], whatever the market gives
YahooCorr(n) ==
  IF n = 1 THEN {<<<<CorrOne>>>>}
  ELSE {Sym2(CorrZero), Sym2(Corr(1, 0))}

\* /metrics_auto between its blocks: correlationMatrixFromYahoo(tickers)
FetchCorr(T) ==
  \E t \in T :
    LET s == thr[t] IN
    /\ s.pc = "fetch"
    /\ \E s2 \in {[s EXCEPT !.pc = "lock2", !.local.corr = c] :
                    c \in YahooCorr(Len(s.local.tickers))}
                 \cup {Caught(s, RuntimeError("Yahoo"))} :
         thr' = [thr EXCEPT ![t] = s2]
    /\ UNCHANGED <<coreVars, objVars, session, call, err, ret, g_portfolio,
                   g_cache, g_mutex>>

\* the second block of /metrics_auto
AutoLocked(T) ==
  \E t \in T :
    LET s == thr[t]
        vol == volatilityApprox(g_portfolio, s.local.corr)
    IN /\ s.pc = "cs2"
       /\ s.kind = "/metrics_auto"
       /\ IF vol.err # NoErr
          THEN Leave(t, Caught(s, vol.err), g_portfolio, g_cache)
          ELSE Leave(t, Page(s), g_portfolio,
                     [has |-> TRUE, corr |-> s.local.corr, labels |-> s.local.tickers])

\* the block of /metrics_manual
ManualLocked(T) ==
  \E t \in T :
    LET s == thr[t]
        ord == assetOrder(g_portfolio)
        vol == volatilityApprox(g_portfolio, s.local)
    IN /\ s.pc = "cs"
       /\ s.kind = "/metrics_manual"
       /\ IF vol.err # NoErr
          THEN Leave(t, Caught(s, vol.err), g_portfolio, g_cache)
          ELSE Leave(t, Page(s), g_portfolio,
                     [has |-> TRUE, corr |-> s.local, labels |-> ord])

\* pageHTML after its lock_guard: the exception of the volatility and of the
\* risk breakdown, and the use made of the cached matrix
pageHTML(P, C) ==
  LET assetCount == Len(assetOrder(P))
      useCorr == C.has /\ hasCompatibleMatrixSize(C.corr, assetCount)
  IN IF useCorr
     THEN [err |-> volatilityApprox(P, C.corr).err, applied |-> {Use(C, P)}]
     ELSE [err |-> NoErr, applied |-> {}]

\* pageHTML in thread t: the page is the response; an exception is caught by
\* the handler's try block, which calls pageHTML again, or, thrown from the
\* catch block or from the handler of /, leaves the handler
PageHTML(T) ==
  \E t \in T :
    /\ thr[t].pc = "render"
    /\ \E r \in {pageHTML(g_portfolio, g_cache)} :
         LET s == thr[t]
             s1 == [s EXCEPT !.applied = @ \cup r.applied]
         IN IF r.err = NoErr THEN Respond(t, s1, "page", s.exc, <<>>)
            ELSE IF s.inCatch \/ s.kind = "/" THEN Respond(t, s1, "escaped", r.err, <<>>)
            ELSE Leave(t, Caught(s1, r.err), g_portfolio, g_cache)

\* the forms, matrices and texts posted
UINames == {<<1>>, <<2>>}

UIForms ==
  [name : UINames, price : {0 - 1, 1}, mu : {0, 2 * eps}, sigma : {eps}, qty : {0, 1}]

UIMatrices ==
  {<<>>, <<<<CorrOne>>>>, <<<<Corr(3, 0)>>>>, Sym2(CorrZero), Sym2(Corr(1, 0))}

\* a record name,price,mu,sigma,qty
Row(name, price, mu, sigma, qty) ==
  <<Txt(name), NumNorm(price, 0), NumNorm(mu, 0), NumNorm(sigma, 0), NumNorm(qty, 0)>>

HeaderLine == <<Txt(W_Name), Txt(W_price), Txt(W_mu), Txt(W_sigma), Txt(W_qty)>>

UICsvs ==
  { <<HeaderLine, Row(<<1>>, 1, 0, eps, 1), <<>>, Row(<<2>>, 1, 0, eps, 1)>>,
    <<Row(<<1>>, 1, 0, eps, 1), Row(<<1>>, 1, 0, eps, 1)>>,
    <<Row(<<2>>, 1, 0, eps, 1), Row(<<1>>, 1, 0, eps, 1), Row(<<1>>, 1, 2 * eps, eps, 1)>>,
    <<Row(<<1>>, 1, 0, eps, 1), <<Txt(<<2>>), NumNorm(1, 0)>> >>,
    <<Row(<<1>>, 1, 0, eps, 1), <<Txt(<<2>>), Txt(W_price), NumNorm(0, 0), NumNorm(eps, 0), NumNorm(1, 0)>> >>,
    <<Row(<<1>>, 1, 0, eps, 1) \o <<NumNorm(1, 0 - 12)>> >>,
    <<Row(<<2>>, 1, 0, eps, 0)>>,
    <<Row(<<2>>, 0 - 1, 0, eps, 1)>>,
    <<Row(W_asset, 1, 0, eps, 1)>>,
    <<HeaderLine>>,
    << <<>> >> }

\* the text the last response carried, if it was an export
Exported == IF call.op = "/export_csv" /\ err = NoErr THEN {ret} ELSE {}

\* one thread serving one request after the other
OneThread == {1}

NextServer ==
  \/ Home(OneThread)
  \/ AddYahoo(OneThread, UINames, {1})
  \/ AddManual(OneThread, UIForms)
  \/ Remove(OneThread, UINames, {0, 1})
  \/ WhatIf(OneThread, UINames, {0 - 1, 0, 1})
  \/ ImportCsv(OneThread, UICsvs \cup Exported)
  \/ ExportCsv(OneThread)
  \/ Optimize(OneThread)
  \/ MetricsAuto(OneThread)
  \/ MetricsManual(OneThread, UIMatrices)
  \/ Lock(OneThread)
  \/ AddLocked(OneThread)
  \/ RemoveLocked(OneThread)
  \/ WhatIfLocked(OneThread)
  \/ ImportLocked(OneThread)
  \/ ExportLocked(OneThread)
  \/ OptimizeLocked(OneThread)
  \/ SnapshotLocked(OneThread)
  \/ FetchCorr(OneThread)
  \/ AutoLocked(OneThread)
  \/ ManualLocked(OneThread)
  \/ PageHTML(OneThread)

SpecServer == Init /\ [][NextServer]_vars

\* two server threads, requests arriving while others are served: thread 1
\* takes the routes that leave the portfolio as it is, thread 2 those that
\* change it
Readers == {1}

Writers == {2}

ConcForms ==
  [name : UINames, price : {1}, mu : {0}, sigma : {eps}, qty : {1}]

ConcCsvs == { <<HeaderLine, Row(<<2>>, 1, 0, eps, 1)>> }

NextConc ==
  \/ Home(Readers)
  \/ WhatIf(Readers, {<<1>>}, {0 - 1, 1})
  \/ ExportCsv(Readers)
  \/ Optimize(Readers)
  \/ MetricsAuto(Readers)
  \/ MetricsManual(Readers, {<<<<Corr(3, 0)>>>>})
  \/ AddYahoo(Writers, {<<1>>}, {1})
  \/ AddManual(Writers, ConcForms)
  \/ Remove(Writers, UINames, {1})
  \/ ImportCsv(Writers, ConcCsvs)
  \/ Lock(Threads)
  \/ AddLocked(Threads)
  \/ RemoveLocked(Threads)
  \/ WhatIfLocked(Threads)
  \/ ImportLocked(Threads)
  \/ ExportLocked(Threads)
  \/ OptimizeLocked(Threads)
  \/ SnapshotLocked(Threads)
  \/ FetchCorr(Threads)
  \/ AutoLocked(Threads)
  \/ ManualLocked(Threads)
  \/ PageHTML(Threads)

SpecConc == Init /\ [][NextConc]_vars

\* ------------------------------------------------------------ claims C25..
\* the records of a text: its non-blank lines, less the header line if any
DataRows(csv_text) ==
  LET lines == SelectSeq(csv_text, NonBlank) IN
  IF lines # <<>> /\ hasHeader(lines[1]) THEN Tail(lines) ELSE lines

\* a record of five cells or more whose price, mu, sigma and qty are numbers
WellFormed(row) ==
  /\ Len(row) >= 5
  /\ \A j \in 2..5 : row[j].k = "num"

\* addPosition(Asset(name_i, price_i, mu_i, sigma_i), qty_i) for the first i
\* records, in their order, on an empty portfolio: whether every record was
\* well formed and every call returned, and the portfolio then
RECURSIVE AddedInOrder(_, _)
AddedInOrder(rows, i) ==
  IF i = 0 THEN [ok |-> TRUE, positions_ |-> <<>>]
  ELSE
    LET sofar == AddedInOrder(rows, i - 1)
        row == rows[i]
    IN
    IF ~sofar.ok \/ ~WellFormed(row) THEN [ok |-> FALSE, positions_ |-> <<>>]
    ELSE
      LET a == AssetCtor(row[1].w, parseDouble(row[2]).val, parseDouble(row[3]).val,
                         parseDouble(row[4]).val)
          r == addPosition(sofar.positions_, a.val, parseDouble(row[5]).val)
      IN IF a.err # NoErr \/ r.err # NoErr THEN [ok |-> FALSE, positions_ |-> <<>>]
         ELSE [ok |-> TRUE, positions_ |-> r.positions_]

\* C25: once /import_csv has answered, if every record r1..rk (k >= 1) of the
\* text was well formed and every addPosition returned, the shared portfolio is
\* the one those calls build in row order on an empty portfolio and no error
\* is reported; if a record is malformed or its addPosition throws, an error
\* is reported and the shared portfolio and the cached matrix are as they were
\* when the request came.
C25_Import ==
  call.op = "/import_csv" =>
    LET rows == DataRows(call.req.csv_text)
        want == AddedInOrder(rows, Len(rows))
    IN /\ Len(rows) >= 1 /\ want.ok => err = NoErr /\ g_portfolio = want.positions_
       /\ ~want.ok => /\ err # NoErr
                      /\ g_portfolio = call.before.portfolio
                      /\ g_cache = call.before.cache

\* C25 witness: an import whose third record mismatches the first two has
\* failed on a server that held a portfolio and a cached matrix.
C25_Witness ==
  /\ call.op = "/import_csv"
  /\ Len(DataRows(call.req.csv_text)) = 3
  /\ err = InvalidArgument("addPosition: asset parameters mismatch for same name (mu/sigma).")
  /\ call.before.portfolio # <<>>
  /\ call.before.cache.has
  /\ g_portfolio = call.before.portfolio

\* the text /export_csv answers on a server holding the portfolio P and the
\* cache C
ExportOf(P, C) ==
  exportPortfolioCSV(P, C.corr,
                     C.has /\ hasCompatibleMatrixSize(C.corr, Len(assetOrder(P))))

\* C26, as stated: once /import_csv has answered on the text the server
\* exported for its portfolio P (not empty), no error is reported and the
\* shared portfolio has every position of P, with its name, price, mu, sigma
\* and quantity.
C26_RoundTrip ==
  /\ call.op = "/import_csv"
  /\ call.before.portfolio # <<>>
  /\ ExportOf(call.before.portfolio, call.before.cache).err = NoErr
  /\ call.req.csv_text = ExportOf(call.before.portfolio, call.before.cache).val
  => err = NoErr /\ g_portfolio = call.before.portfolio

\* C28, as stated: every use of the cached matrix on a portfolio, by a request
\* being served or by the last one answered, is a use of a matrix whose labels
\* are the asset order of that portfolio.
C28_LabelsMatch ==
  /\ \A t \in Threads :
       thr[t].pc # "idle" => \A u \in thr[t].applied : u.labels = u.order
  /\ "applied" \in DOMAIN call => \A u \in call.applied : u.labels = u.order

\* C29, as stated: inside the second block of /metrics_auto the tickers the
\* first block snapshotted are the asset order of the shared portfolio.
C29_SnapshotCurrent ==
  \A t \in Threads :
    thr[t].pc = "cs2" => thr[t].local.tickers = assetOrder(g_portfolio)

\* C30: a thread about to construct a lock_guard does not hold the lock; a
\* thread inside a block, where the shared portfolio and the cached matrix are
\* read and written, holds it; and a thread holds it nowhere else, whether it
\* left its block at the end or by an exception.
C30_LockDiscipline ==
  /\ g_mutex \in {0} \cup Threads
  /\ \A t \in Threads :
       /\ thr[t].pc \in {"lock", "lock2", "page"} => g_mutex # t
       /\ thr[t].pc \in {"cs", "cs2", "render"} => g_mutex = t
       /\ thr[t].pc \in {"idle", "fetch"} => g_mutex # t

\* C30 witness: /what_if or /optimize threw inside its block and is about to
\* call pageHTML from its catch block, while the other thread is inside a
\* block of its own.
C30_Witness ==
  \E t \in Threads :
    /\ thr[t].pc = "page"
    /\ thr[t].inCatch
    /\ thr[t].kind \in {"/what_if", "/optimize"}
    /\ g_mutex \in Threads \ {t}

====
